---- MODULE Spec2Model ----
(***************************************************************************)
(* Document classification pipeline of the KMRL document automation        *)
(* service (services/categorizeService.js): the orchestrator               *)
(* categorizeDocument, the AI adapter getStructuredAIAnalysis, the keyword *)
(* validator validateAndOverrideCategories / getRuleBasedPriority and the  *)
(* filename-only analyzer analyzeFromFilename; with it the request         *)
(* validation middleware validateRateLimit and the document controller     *)
(* over the database service.                                              *)
(*                                                                         *)
(* JavaScript strings are TLA+ strings.  A JavaScript value carries its    *)
(* type with its text.  A parsed JSON object is a function from the field  *)
(* names it has to their values; an absent field is a name outside its     *)
(* DOMAIN.                                                                 *)
(***************************************************************************)
EXTENDS Integers, Sequences, FiniteSets, Bags, TLC

VARIABLES pc, textContent, fileName, aiOutcome, aiResult, result, aiRequests, calls

\* the request validation middleware: global.rateLimitStore, the clock read by
\* Date.now(), the clients that have connected, the answer to the last request,
\* and the same for a limiter that never runs its cleanup pass
VARIABLES rateLimitStore, now, crowdSeen, lastRequest, plainStore, plainLast

pipelineVars == <<pc, textContent, fileName, aiOutcome, aiResult, result, aiRequests, calls>>

rateVars == <<rateLimitStore, now, crowdSeen, lastRequest, plainStore, plainLast>>

\* the document controller: the connectivity of the database, its documents,
\* the in-memory list, the uploaded files on the disk, the identifiers given
\* out, the records created, the requests being served (a bag: what each
\* handler holds at its await), the last answer, the identifiers answered
\* with 201 and with a successful deletion, and whether an exception nobody
\* caught has ended the process
VARIABLES dbConnected, dbDocuments, processedDocuments, disk, nextId, clock, inFlight,
          lastResponse, accepted, deletedOk, crashed

docVars == <<dbConnected, dbDocuments, processedDocuments, disk, nextId, clock, inFlight,
             lastResponse, accepted, deletedOk, crashed>>

vars == <<pipelineVars, rateVars, docVars>>

(***************************************************************************)
(* Bounds of the model.                                                    *)
(***************************************************************************)
MaxWords == 2

MaxNameWords == 3

(***************************************************************************)
(* String primitives of the JavaScript runtime.                            *)
(***************************************************************************)
UpperChars == "ABCDEFGHIJKLMNOPQRSTUVWXYZ"

LowerChars == "abcdefghijklmnopqrstuvwxyz"

\* String.prototype.includes(needle)
Includes(s, needle) ==
  \E i \in 1..(Len(s) - Len(needle) + 1) : SubSeq(s, i, i + Len(needle) - 1) = needle

\* the upper-case letters and their lower-case forms
UpperToLower ==
  [ch \in {SubSeq(UpperChars, i, i) : i \in 1..26} |->
     LET i == CHOOSE j \in 1..26 : SubSeq(UpperChars, j, j) = ch
     IN SubSeq(LowerChars, i, i)]

\* the lower-case form of one character
LowerChar(ch) == IF ch \in DOMAIN UpperToLower THEN UpperToLower[ch] ELSE ch

RECURSIVE ToLowerCase(_)
\* String.prototype.toLowerCase()
ToLowerCase(s) ==
  IF Len(s) = 0 THEN ""
  ELSE IF Len(s) = 1 THEN LowerChar(s)
  ELSE LET half == Len(s) \div 2
       IN ToLowerCase(SubSeq(s, 1, half)) \o ToLowerCase(SubSeq(s, half + 1, Len(s)))

\* the whitespace String.prototype.trim() removes
TrimWhitespace == {" ", "\t", "\n", "\r", "\f"}

\* String.prototype.trim(): s from its first to its last character that is
\* not whitespace
Trim(s) ==
  LET kept(i) == SubSeq(s, i, i) \notin TrimWhitespace
      first == CHOOSE i \in 1..Len(s) : kept(i) /\ \A k \in 1..(i - 1) : ~kept(k)
      last == CHOOSE i \in 1..Len(s) : kept(i) /\ \A k \in (i + 1)..Len(s) : ~kept(k)
  IN IF \A i \in 1..Len(s) : ~kept(i) THEN "" ELSE SubSeq(s, first, last)

\* textContent.split(' ').length: one more than the number of spaces
SplitLength(s) == 1 + Cardinality({i \in 1..Len(s) : SubSeq(s, i, i) = " "})

\* Array.prototype.filter(pred).length over a keyword list
CountMatching(keywords, haystack) ==
  Cardinality({i \in 1..Len(keywords) : Includes(haystack, keywords[i])})

\* Array.prototype.some(pred) over a keyword list
SomeMatching(keywords, haystack) ==
  \E i \in 1..Len(keywords) : Includes(haystack, keywords[i])

(***************************************************************************)
(* JavaScript values.  The fields of the AI's answer are whatever JSON     *)
(* values the service wrote, so a value carries its type: the text of a    *)
(* string is the string, of a number its numeral, of a boolean or null the *)
(* literal, of an object or an array its JSON source.                      *)
(***************************************************************************)
Str(s) == [type |-> "string", text |-> s]

Num(numeral) == [type |-> "number", text |-> numeral]

JsTrue == [type |-> "boolean", text |-> "true"]

JsFalse == [type |-> "boolean", text |-> "false"]

JsNull == [type |-> "null", text |-> "null"]

Undefined == [type |-> "undefined", text |-> ""]

\* the character of s at position i, "" outside s
At(s, i) == IF i \in 1..Len(s) THEN SubSeq(s, i, i) ELSE ""

Digits == {"0", "1", "2", "3", "4", "5", "6", "7", "8", "9"}

\* the first position from i on whose character is not a digit
DigitsEnd(s, i) ==
  CHOOSE j \in i..(Len(s) + 1) :
    /\ At(s, j) \notin Digits
    /\ \A k \in i..(j - 1) : At(s, k) \in Digits

\* the value of a digit
DigitValue(ch) == CHOOSE d \in 0..9 : SubSeq("0123456789", d + 1, d + 1) = ch

RECURSIVE DecimalValue(_)
\* the number a string of digits writes
DecimalValue(digits) ==
  IF digits = "" THEN 0
  ELSE 10 * DecimalValue(SubSeq(digits, 1, Len(digits) - 1))
       + DigitValue(SubSeq(digits, Len(digits), Len(digits)))

\* the digits of 2^-1075 = 0.247...E-323, half of the smallest double above
\* 0: a numeral up to it is read as 0 (round to nearest, ties to even)
HalfMinValue ==
  "24703282292062327208828439643411068618252990130716238221279284125033775363510437593264991818081799618989828234772285886546332835517796989819938739800539093906315035659515570226392290858392449105184435931802849936536152500319370457678249219365623669863658480757001585769269903706311928279558551332927834338409351978015531246597263579574622766465272827220056374006485499977096599470454020828166226237857393450736339007967761930577506740176324673600968951340535537458516661134223766678604162159680461914467291840300530057530849048765391711386591646239524912623653881879636239373280423891018672348497668235089863388587925628302755995657524455507255189313690836254779186948667994968324049705821028513185451396213837722826145437693412532098591327667236328125"

\* the numeral of a JSON number is read as the double 0 (or -0): it has no
\* digit but 0 before its exponent, or its value is 2^-1075 or less
IsZeroNumeral(numeral) ==
  LET marks == {i \in 1..Len(numeral) : At(numeral, i) \in {"e", "E"}}
      mark == IF marks = {} THEN Len(numeral) + 1 ELSE CHOOSE i \in marks : TRUE
      points == {i \in 1..(mark - 1) : At(numeral, i) = "."}
      point == IF points = {} THEN mark ELSE CHOOSE i \in points : TRUE
      nonZero == {i \in 1..(mark - 1) : At(numeral, i) \in Digits \ {"0"}}
      first == CHOOSE i \in nonZero : \A j \in nonZero : i <= j
      signed == At(numeral, mark + 1) \in {"+", "-"}
      written == SubSeq(numeral, IF signed THEN mark + 2 ELSE mark + 1, Len(numeral))
      zeros == CHOOSE j \in 1..(Len(written) + 1) :
                 At(written, j) # "0" /\ \A k \in 1..(j - 1) : At(written, k) = "0"
      exponentDigits == SubSeq(written, zeros, Len(written))
      negative == At(numeral, mark + 1) = "-"
      exponent == IF negative THEN 0 - DecimalValue(exponentDigits)
                  ELSE DecimalValue(exponentDigits)
      \* the power of ten of the first digit that is not 0
      magnitude == (IF first < point THEN point - first - 1 ELSE point - first) + exponent
      \* the n-th digit from the first that is not 0 on, 0 after the last
      digitAt(n) ==
        LET at == first + n - 1
            i == IF first < point /\ at >= point THEN at + 1 ELSE at
        IN IF i < mark THEN At(numeral, i) ELSE "0"
      halfAt(n) == IF n <= Len(HalfMinValue) THEN At(HalfMinValue, n) ELSE "0"
      differing == {n \in 1..(Len(HalfMinValue) + Len(numeral)) : digitAt(n) # halfAt(n)}
      firstDiffering == CHOOSE n \in differing : \A m \in differing : n <= m
  IN IF nonZero = {} THEN TRUE
     ELSE IF Len(exponentDigits) > 9 THEN negative
     ELSE IF magnitude # -324 THEN magnitude < -324
     ELSE differing = {}
          \/ DigitValue(digitAt(firstDiffering)) < DigitValue(halfAt(firstDiffering))

\* JavaScript's truthiness: "", 0, false, null and undefined are falsy
Truthy(v) ==
  IF v.type = "string" THEN v.text # ""
  ELSE IF v.type = "number" THEN ~IsZeroNumeral(v.text)
  ELSE IF v.type = "boolean" THEN v.text = "true"
  ELSE v.type \in {"object", "array"}

\* JavaScript's a || b
OrElse(a, b) == IF Truthy(a) THEN a ELSE b

(***************************************************************************)
(* The closed enumerations of the classification result.                   *)
(***************************************************************************)
CategoryLabels ==
  {"Engineering", "Finance", "Procurement", "HR", "Legal", "Safety", "Regulatory", "Other"}

PriorityLabels == {"High", "Medium", "Low"}

\* Object.entries order of both keyword tables
CategoryOrder ==
  <<"Engineering", "Finance", "Procurement", "HR", "Legal", "Safety", "Regulatory">>

(***************************************************************************)
(* analyzeFromFilename: the filename-only analyzer.                        *)
(***************************************************************************)
filenameCategories ==
  [Engineering |-> <<"maintenance", "repair", "technical", "equipment", "infrastructure",
                     "construction", "mech", "elect", "system", "work", "project">>,
   Finance     |-> <<"budget", "payment", "invoice", "expense", "cost", "revenue",
                     "financial", "account", "bill", "fund">>,
   Procurement |-> <<"purchase", "vendor", "supplier", "tender", "quotation", "contract",
                     "rfp", "procurement", "order">>,
   HR          |-> <<"employee", "staff", "personnel", "recruitment", "training", "leave",
                     "hr", "attendance", "salary">>,
   Legal       |-> <<"legal", "contract", "agreement", "compliance", "regulation", "law",
                     "audit", "policy">>,
   Safety      |-> <<"safety", "security", "emergency", "incident", "accident", "hazard",
                     "risk", "circular", "alert">>,
   Regulatory  |-> <<"regulatory", "government", "ministry", "notification", "directive",
                     "guideline", "rule", "standard">>]

filenameHighPriorityKeywords == <<"urgent", "immediate", "emergency", "critical", "asap">>

filenameMediumPriorityKeywords == <<"important", "attention", "notice", "reminder">>

\* matches of one category in the lowercased filename
FilenameMatches(category, lowerFileName) ==
  CountMatching(filenameCategories[category], lowerFileName)

RECURSIVE FilenameBest_LastTieWins(_, _, _)
\* the loop letting a later category with an equal count win
FilenameBest_LastTieWins(i, best, lowerFileName) ==
  IF i > Len(CategoryOrder) THEN best
  ELSE LET category == CategoryOrder[i]
           matches == FilenameMatches(category, lowerFileName)
       IN IF matches >= best.maxMatches
          THEN FilenameBest_LastTieWins(i + 1, [detectedCategory |-> category,
                                                maxMatches |-> matches], lowerFileName)
          ELSE FilenameBest_LastTieWins(i + 1, best, lowerFileName)

RECURSIVE FilenameBest_NeedsTwo(_, _, _)
\* the loop taking a category only from its second match on
FilenameBest_NeedsTwo(i, best, lowerFileName) ==
  IF i > Len(CategoryOrder) THEN best
  ELSE LET category == CategoryOrder[i]
           matches == FilenameMatches(category, lowerFileName)
       IN IF matches > best.maxMatches /\ matches >= 2
          THEN FilenameBest_NeedsTwo(i + 1, [detectedCategory |-> category,
                                             maxMatches |-> matches], lowerFileName)
          ELSE FilenameBest_NeedsTwo(i + 1, best, lowerFileName)

RECURSIVE FilenameBest(_, _, _)
\* the loop over Object.entries(filenameCategories) from entry i on, with the
\* running pair (detectedCategory, maxMatches)
FilenameBest(i, best, lowerFileName) ==
  IF i > Len(CategoryOrder) THEN best
  ELSE LET category == CategoryOrder[i]
           matches == FilenameMatches(category, lowerFileName)
       IN IF matches > best.maxMatches
          THEN FilenameBest(i + 1, [detectedCategory |-> category, maxMatches |-> matches],
                            lowerFileName)
          ELSE FilenameBest(i + 1, best, lowerFileName)

\* the analyzer giving Medium only for a Medium keyword
analyzeFromFilename_MediumNeedsKeyword(name) ==
  LET lowerFileName == ToLowerCase(name)
      best == FilenameBest(1, [detectedCategory |-> "Other", maxMatches |-> 0], lowerFileName)
      priority ==
        IF SomeMatching(filenameHighPriorityKeywords, lowerFileName) THEN "High"
        ELSE IF SomeMatching(filenameMediumPriorityKeywords, lowerFileName) THEN "Medium"
        ELSE "Low"
      summary ==
        IF best.maxMatches > 0
        THEN best.detectedCategory \o " document identified from filename: \"" \o name
             \o "\". Content extraction unsuccessful - manual review recommended for detailed analysis."
        ELSE "Document \"" \o name
             \o "\" has been uploaded. Content extraction was unsuccessful - please review the original file for details."
  IN [category |-> Str(best.detectedCategory), priority |-> Str(priority),
      analysis |-> Str(summary)]

analyzeFromFilename(name) ==
  LET lowerFileName == ToLowerCase(name)
      best == FilenameBest(1, [detectedCategory |-> "Other", maxMatches |-> 0], lowerFileName)
      priority ==
        IF SomeMatching(filenameHighPriorityKeywords, lowerFileName) THEN "High"
        ELSE IF SomeMatching(filenameMediumPriorityKeywords, lowerFileName)
                \/ best.maxMatches > 0 THEN "Medium"
        ELSE "Low"
      summary ==
        IF best.maxMatches > 0
        THEN best.detectedCategory \o " document identified from filename: \"" \o name
             \o "\". Content extraction unsuccessful - manual review recommended for detailed analysis."
        ELSE "Document \"" \o name
             \o "\" has been uploaded. Content extraction was unsuccessful - please review the original file for details."
  IN [category |-> Str(best.detectedCategory), priority |-> Str(priority),
      analysis |-> Str(summary)]

(***************************************************************************)
(* validateAndOverrideCategories: the keyword validator.                   *)
(***************************************************************************)
categoryKeywords ==
  [Engineering |-> <<"maintenance", "repair", "technical", "equipment", "infrastructure",
                     "construction", "mechanical", "electrical", "system">>,
   Finance     |-> <<"budget", "payment", "invoice", "expense", "cost", "revenue",
                     "financial", "accounting">>,
   Procurement |-> <<"purchase", "vendor", "supplier", "tender", "quotation",
                     "contract award", "rfp", "procurement">>,
   HR          |-> <<"employee", "staff", "personnel", "recruitment", "training", "leave",
                     "human resource", "hr">>,
   Legal       |-> <<"legal", "contract", "agreement", "compliance", "regulation", "law",
                     "litigation", "audit">>,
   Safety      |-> <<"safety", "security", "emergency", "incident", "accident", "hazard",
                     "risk", "protocol">>,
   Regulatory  |-> <<"regulatory", "government", "ministry", "policy", "circular",
                     "notification", "directive", "guideline">>]

\* the match count that looks at the text only
KeywordMatches_TextOnly(category, lowerText, lowerFileName) ==
  Cardinality({i \in 1..Len(categoryKeywords[category]) :
                 Includes(lowerText, categoryKeywords[category][i])})

\* keywords.filter(k => lowerText.includes(k) || lowerFileName.includes(k)).length
KeywordMatches(category, lowerText, lowerFileName) ==
  Cardinality({i \in 1..Len(categoryKeywords[category]) :
                 \/ Includes(lowerText, categoryKeywords[category][i])
                 \/ Includes(lowerFileName, categoryKeywords[category][i])})

\* the override test with a threshold of one match
OverrideTest_AnyMatch(matches, maxMatches) == matches > maxMatches /\ matches >= 1

\* the override test that lets a later category with an equal count win
OverrideTest_LastTieWins(matches, maxMatches) == matches >= maxMatches /\ matches >= 2

\* the override test of one loop iteration
OverrideTest(matches, maxMatches) == matches > maxMatches /\ matches >= 2

RECURSIVE KeywordBest(_, _, _, _)
\* the loop over Object.entries(categoryKeywords) from entry i on, with the
\* running pair (bestCategory, maxMatches)
KeywordBest(i, best, lowerText, lowerFileName) ==
  IF i > Len(CategoryOrder) THEN best
  ELSE LET category == CategoryOrder[i]
           matches == KeywordMatches(category, lowerText, lowerFileName)
       IN IF OverrideTest(matches, best.maxMatches)
          THEN KeywordBest(i + 1, [bestCategory |-> Str(category), maxMatches |-> matches],
                           lowerText, lowerFileName)
          ELSE KeywordBest(i + 1, best, lowerText, lowerFileName)

\* the validator replacing the summary when it overrides the category
validateAndOverrideCategories_AnalysisLostOnOverride(text, name, ai) ==
  LET lowerText == ToLowerCase(text)
      lowerFileName == ToLowerCase(name)
      best == KeywordBest(1, [bestCategory |-> ai.category, maxMatches |-> 0],
                          lowerText, lowerFileName)
  IN [category |-> best.bestCategory, priority |-> ai.priority,
      analysis |-> IF best.maxMatches > 0
                   THEN Str(best.bestCategory.text \o " document identified from keywords.")
                   ELSE ai.summary]

\* the validator starting from 'Other' as the filename analyzer does
validateAndOverrideCategories_StartsFromOther(text, name, ai) ==
  LET lowerText == ToLowerCase(text)
      lowerFileName == ToLowerCase(name)
      best == KeywordBest(1, [bestCategory |-> Str("Other"), maxMatches |-> 0],
                          lowerText, lowerFileName)
  IN [category |-> best.bestCategory, priority |-> ai.priority, analysis |-> ai.summary]

validateAndOverrideCategories(text, name, ai) ==
  LET lowerText == ToLowerCase(text)
      lowerFileName == ToLowerCase(name)
      best == KeywordBest(1, [bestCategory |-> ai.category, maxMatches |-> 0],
                          lowerText, lowerFileName)
  IN [category |-> best.bestCategory, priority |-> ai.priority, analysis |-> ai.summary]

(***************************************************************************)
(* getRuleBasedPriority: the priority rules of the AI path.                *)
(***************************************************************************)
highPriorityKeywords ==
  <<"urgent", "immediate", "emergency", "critical", "deadline", "asap",
    "action required", "time sensitive", "priority", "escalate">>

mediumPriorityKeywords ==
  <<"important", "attention", "review required", "follow up", "notice",
    "update", "reminder", "please note">>

\* the priority rules applied to the text as it is, not lowercased
getRuleBasedPriority_CaseSensitive(text, aiPriority) ==
  IF SomeMatching(highPriorityKeywords, text) THEN Str("High")
  ELSE IF SomeMatching(mediumPriorityKeywords, text) THEN Str("Medium")
  ELSE OrElse(aiPriority, Str("Low"))

\* the priority rules with the Medium triggers tested before the High ones
getRuleBasedPriority_MediumFirst(text, aiPriority) ==
  LET lowerText == ToLowerCase(text)
  IN IF SomeMatching(mediumPriorityKeywords, lowerText) THEN Str("Medium")
     ELSE IF SomeMatching(highPriorityKeywords, lowerText) THEN Str("High")
     ELSE OrElse(aiPriority, Str("Low"))

\* the priority rules keeping a High suggested by the AI over a Medium trigger
getRuleBasedPriority_AIHighKept(text, aiPriority) ==
  LET lowerText == ToLowerCase(text)
  IN IF SomeMatching(highPriorityKeywords, lowerText) THEN Str("High")
     ELSE IF aiPriority = Str("High") THEN Str("High")
     ELSE IF SomeMatching(mediumPriorityKeywords, lowerText) THEN Str("Medium")
     ELSE OrElse(aiPriority, Str("Low"))

getRuleBasedPriority(text, aiPriority) ==
  LET lowerText == ToLowerCase(text)
  IN IF SomeMatching(highPriorityKeywords, lowerText) THEN Str("High")
     ELSE IF SomeMatching(mediumPriorityKeywords, lowerText) THEN Str("Medium")
     ELSE OrElse(aiPriority, Str("Low"))

(***************************************************************************)
(* getStructuredAIAnalysis: the AI adapter.                                *)
(*                                                                         *)
(* A completion says how a block of code ended: it returned a value, it    *)
(* threw, or it ran to its end without returning.                          *)
(***************************************************************************)
\* the adapter has returned nothing yet
NoAIResult == [category |-> Undefined, priority |-> Undefined, summary |-> Undefined]

Returned(v) == [type |-> "return", value |-> v]

Thrown == [type |-> "throw", value |-> NoAIResult]

FellThrough == [type |-> "normal", value |-> NoAIResult]

(***************************************************************************)
(* JSON.parse (ECMA-404): a recursive-descent reading of the text.  Every  *)
(* reader answers with ok, the position after what it read, and the value. *)
(***************************************************************************)
JsonWhitespace == {" ", "\t", "\n", "\r"}

\* characters below U+0020 may not stand unescaped inside a string
ControlCharacters == {"\t", "\n", "\r", "\f"}

\* the first position from i on that holds no whitespace
SkipWhitespace(s, i) ==
  CHOOSE j \in i..(Len(s) + 1) :
    /\ At(s, j) \notin JsonWhitespace
    /\ \A k \in i..(j - 1) : At(s, k) \in JsonWhitespace

RECURSIVE BackslashRun(_, _)
\* the number of backslashes that end at position i
BackslashRun(s, i) == IF At(s, i) = "\\" THEN 1 + BackslashRun(s, i - 1) ELSE 0

\* position j holds a quote that no backslash escapes
ClosingQuote(s, j) == At(s, j) = "\"" /\ BackslashRun(s, j - 1) % 2 = 0

\* the position of the quote closing the string opened at position open, or
\* Len(s) + 1 when none does
StringEnd(s, open) ==
  CHOOSE j \in (open + 1)..(Len(s) + 1) :
    /\ j = Len(s) + 1 \/ ClosingQuote(s, j)
    /\ \A k \in (open + 1)..(j - 1) : ~ClosingQuote(s, k)

HexDigits == "0123456789abcdef"

IsHexDigit(ch) == ch # "" /\ \E i \in 1..16 : At(HexDigits, i) = LowerChar(ch)

HexValue(ch) == (CHOOSE i \in 1..16 : At(HexDigits, i) = LowerChar(ch)) - 1

\* the characters U+0020 to U+005F in order
AsciiBeforeBacktick ==
  " !\"#$%&'()*+,-./0123456789:;<=>?@ABCDEFGHIJKLMNOPQRSTUVWXYZ[\\]^_"

\* the characters U+0061 to U+007E in order
AsciiAfterBacktick == "abcdefghijklmnopqrstuvwxyz{|}~"

\* the character of a \uXXXX escape; a code point the strings of this
\* module cannot hold stands as the escape was written
UnicodeEscape(hex) ==
  LET code == 4096 * HexValue(At(hex, 1)) + 256 * HexValue(At(hex, 2))
              + 16 * HexValue(At(hex, 3)) + HexValue(At(hex, 4))
  IN IF code \in 32..95 THEN At(AsciiBeforeBacktick, code - 31)
     ELSE IF code \in 97..126 THEN At(AsciiAfterBacktick, code - 96)
     ELSE IF code = 9 THEN "\t"
     ELSE IF code = 10 THEN "\n"
     ELSE IF code = 12 THEN "\f"
     ELSE IF code = 13 THEN "\r"
     ELSE "\\u" \o hex

RECURSIVE Unescape(_)
\* the string a string literal's body stands for: ok is FALSE for a body
\* holding a control character or a backslash that starts no escape
Unescape(body) ==
  LET special == {i \in 1..Len(body) : At(body, i) \in ControlCharacters \cup {"\\"}}
      first == CHOOSE i \in special : \A j \in special : i <= j
      escape == At(body, first + 1)
      hex == SubSeq(body, first + 2, first + 5)
      width == IF escape = "u" THEN 6 ELSE 2
      char == IF escape = "\"" THEN "\""
              ELSE IF escape = "\\" THEN "\\"
              ELSE IF escape = "/" THEN "/"
              ELSE IF escape = "b" THEN "\\b"
              ELSE IF escape = "f" THEN "\f"
              ELSE IF escape = "n" THEN "\n"
              ELSE IF escape = "r" THEN "\r"
              ELSE IF escape = "t" THEN "\t"
              ELSE UnicodeEscape(hex)
      valid == /\ At(body, first) = "\\"
               /\ \/ escape \in {"\"", "\\", "/", "b", "f", "n", "r", "t"}
                  \/ /\ escape = "u"
                     /\ first + 5 <= Len(body)
                     /\ \A i \in 1..4 : IsHexDigit(At(hex, i))
      rest == Unescape(SubSeq(body, first + width, Len(body)))
  IN IF special = {} THEN [ok |-> TRUE, text |-> body]
     ELSE IF ~valid THEN [ok |-> FALSE, text |-> ""]
     ELSE [ok |-> rest.ok, text |-> SubSeq(body, 1, first - 1) \o char \o rest.text]

\* nothing could be read at position i
NoValue(i) == [ok |-> FALSE, next |-> i, value |-> Undefined, members |-> <<>>]

\* a value that is not an object was read up to position next
Read(next, value) == [ok |-> TRUE, next |-> next, value |-> value, members |-> <<>>]

\* a string literal whose opening quote is at position i
ReadString(s, i) ==
  LET close == StringEnd(s, i)
      content == Unescape(SubSeq(s, i + 1, close - 1))
  IN IF close > Len(s) \/ ~content.ok THEN NoValue(i)
     ELSE Read(close + 1, Str(content.text))

\* a number: -? (0 | [1-9][0-9]*) (. [0-9]+)? ([eE] [+-]? [0-9]+)?
ReadNumber(s, i) ==
  LET intStart == IF At(s, i) = "-" THEN i + 1 ELSE i
      intEnd == IF At(s, intStart) = "0" THEN intStart + 1 ELSE DigitsEnd(s, intStart)
      hasFraction == At(s, intEnd) = "."
      fractionEnd == IF hasFraction THEN DigitsEnd(s, intEnd + 1) ELSE intEnd
      hasExponent == At(s, fractionEnd) \in {"e", "E"}
      exponentStart == IF At(s, fractionEnd + 1) \in {"+", "-"} THEN fractionEnd + 2
                       ELSE fractionEnd + 1
      exponentEnd == IF hasExponent THEN DigitsEnd(s, exponentStart) ELSE fractionEnd
  IN IF \/ intEnd = intStart
        \/ hasFraction /\ fractionEnd = intEnd + 1
        \/ hasExponent /\ exponentEnd = exponentStart
     THEN NoValue(i)
     ELSE Read(exponentEnd, Num(SubSeq(s, i, exponentEnd - 1)))

\* one of the literals true, false, null
ReadLiteral(s, i, literal, value) ==
  IF i + Len(literal) - 1 <= Len(s) /\ SubSeq(s, i, i + Len(literal) - 1) = literal
  THEN Read(i + Len(literal), value)
  ELSE NoValue(i)

RECURSIVE ReadValue(_, _)
RECURSIVE ReadMembers(_, _, _)
RECURSIVE ReadElements(_, _)

\* an object read up to position next, with its properties
ReadProperties(next, members) ==
  [ok |-> TRUE, next |-> next, value |-> Undefined, members |-> members]

\* after a member: a comma and the next member, or the closing brace
AfterMember(s, after, members) ==
  IF At(s, after) = "," THEN ReadMembers(s, SkipWhitespace(s, after + 1), members)
  ELSE IF At(s, after) = "}" THEN ReadProperties(after + 1, members)
  ELSE NoValue(after)

\* the value of the member called name was read (a repeated key keeps its
\* last value)
WithMember(s, name, member, members) ==
  IF member.ok
  THEN AfterMember(s, SkipWhitespace(s, member.next), (name :> member.value) @@ members)
  ELSE member

\* after the key of a member: the colon and the value
AfterKey(s, key, colon, members) ==
  IF key.ok /\ At(s, colon) = ":"
  THEN WithMember(s, key.value.text, ReadValue(s, SkipWhitespace(s, colon + 1)), members)
  ELSE NoValue(colon)

\* the key that was read, and the position after it and the whitespace
WithKey(s, key, members) == AfterKey(s, key, SkipWhitespace(s, key.next), members)

\* the members of an object from the key at position i on; members holds
\* the ones read before
ReadMembers(s, i, members) ==
  IF At(s, i) = "\"" THEN WithKey(s, ReadString(s, i), members) ELSE NoValue(i)

\* after an element: a comma and the next element, or the closing bracket
AfterElement(s, after) ==
  IF At(s, after) = "," THEN ReadElements(s, SkipWhitespace(s, after + 1))
  ELSE IF At(s, after) = "]" THEN Read(after + 1, Undefined)
  ELSE NoValue(after)

WithElement(s, element) ==
  IF element.ok THEN AfterElement(s, SkipWhitespace(s, element.next)) ELSE element

\* the elements of an array from the element at position i on
ReadElements(s, i) == WithElement(s, ReadValue(s, i))

\* what was read from the opening brace or bracket at position i, if it was
\* read, is the value whose JSON source lies between i and the position
\* reached
Enclosed(s, i, body, type) ==
  IF body.ok
  THEN [body EXCEPT !.value = [type |-> type, text |-> SubSeq(s, i, body.next - 1)]]
  ELSE body

\* the members of the object whose opening brace is before position first
ObjectBody(s, first) ==
  IF At(s, first) = "}" THEN ReadProperties(first + 1, <<>>)
  ELSE ReadMembers(s, first, <<>>)

\* the elements of the array whose opening bracket is before position first
ArrayBody(s, first) ==
  IF At(s, first) = "]" THEN Read(first + 1, Undefined) ELSE ReadElements(s, first)

\* the object whose opening brace is at position i
ReadObject(s, i) == Enclosed(s, i, ObjectBody(s, SkipWhitespace(s, i + 1)), "object")

\* the array whose opening bracket is at position i
ReadArray(s, i) == Enclosed(s, i, ArrayBody(s, SkipWhitespace(s, i + 1)), "array")

\* the value that starts with the character ch at position i
ReadValueAt(s, i, ch) ==
  IF ch = "{" THEN ReadObject(s, i)
  ELSE IF ch = "[" THEN ReadArray(s, i)
  ELSE IF ch = "\"" THEN ReadString(s, i)
  ELSE IF ch = "t" THEN ReadLiteral(s, i, "true", JsTrue)
  ELSE IF ch = "f" THEN ReadLiteral(s, i, "false", JsFalse)
  ELSE IF ch = "n" THEN ReadLiteral(s, i, "null", JsNull)
  ELSE IF ch = "-" \/ ch \in Digits THEN ReadNumber(s, i)
  ELSE NoValue(i)

\* the value that starts at position i
ReadValue(s, i) == ReadValueAt(s, i, At(s, i))

\* the text was read as the value top: it is JSON if nothing but whitespace
\* follows the value
WholeText(text, top) ==
  IF top.ok /\ SkipWhitespace(text, top.next) = Len(text) + 1
  THEN [ok |-> TRUE, value |-> top.value, members |-> top.members]
  ELSE [ok |-> FALSE, value |-> Undefined, members |-> <<>>]

\* JSON.parse(text): one value between optional whitespace, a SyntaxError
\* (ok is FALSE) for any other text; members are the properties of an object
JSONParse(text) == WholeText(text, ReadValue(text, SkipWhitespace(text, 1)))

(***************************************************************************)
(* The answers of the modelled AI service and the rest of the adapter.     *)
(***************************************************************************)
JsonFields == <<"category", "priority", "summary">>

RECURSIVE StringifyFrom(_, _, _)
\* the members of object o from field i on, comma separated
StringifyFrom(o, i, first) ==
  IF i > Len(JsonFields) THEN ""
  ELSE IF JsonFields[i] \in DOMAIN o
       THEN (IF first THEN "" ELSE ",")
            \o "\"" \o JsonFields[i] \o "\":\"" \o o[JsonFields[i]] \o "\""
            \o StringifyFrom(o, i + 1, FALSE)
       ELSE StringifyFrom(o, i + 1, first)

\* the JSON text of an object
Stringify(o) == "{" \o StringifyFrom(o, 1, TRUE) \o "}"

\* the values the modelled AI service may put in each field
AICategories == {"", "HR", "Other", "Banana"}

AIPriorities == {"High", "Medium", "Low", "Urgent"}

AISummaries == {"An invoice document."}

\* an object with the fields whose option set is not empty
MakeObject(c, p, s) ==
  LET opt == [category |-> c, priority |-> p, summary |-> s]
      dom == {k \in {"category", "priority", "summary"} : opt[k] # {}}
  IN [k \in dom |-> CHOOSE v \in opt[k] : TRUE]

Optional(values) == {{}} \cup {{v} : v \in values}

JsonObjects ==
  {MakeObject(c, p, s) : c \in Optional(AICategories), p \in Optional(AIPriorities),
                         s \in Optional(AISummaries)}

\* response.match(/\{[\s\S]*\}/): from the first "{" to the last "}"
RegexMatch(response) ==
  LET opens == {i \in 1..Len(response) : SubSeq(response, i, i) = "{"}
      first == CHOOSE i \in opens : \A j \in opens : i <= j
      closes == {i \in 1..Len(response) : SubSeq(response, i, i) = "}" /\ i > first}
      last == CHOOSE i \in closes : \A j \in closes : j <= i
  IN IF opens = {} \/ closes = {}
     THEN [found |-> FALSE, text |-> ""]
     ELSE [found |-> TRUE, text |-> SubSeq(response, first, last)]

\* parsedResult.field || fallback, for the properties o of parsedResult
FieldOr(o, field, fallback) ==
  OrElse(IF field \in DOMAIN o THEN o[field] ELSE Undefined, fallback)

\* the summary of the fallback triple
WordCountSummary(text) ==
  "Document contains " \o ToString(SplitLength(text))
  \o " words and has been processed for review."

\* the summary substituted for a parsed object without one
DefaultSummary == "Document processed for categorization."

\* the parsed triple without a substitute for a missing summary
ParsedTriple_NoSummaryDefault(parsedResult) ==
  [category |-> FieldOr(parsedResult, "category", Str("Other")),
   priority |-> FieldOr(parsedResult, "priority", Str("Low")),
   summary  |-> FieldOr(parsedResult, "summary", Str(""))]

\* what the adapter returns for a parsed object
ParsedTriple(parsedResult) ==
  [category |-> FieldOr(parsedResult, "category", Str("Other")),
   priority |-> FieldOr(parsedResult, "priority", Str("Low")),
   summary  |-> FieldOr(parsedResult, "summary", Str(DefaultSummary))]

\* the statements after the response arrived, inside the try block
ParseResponse(response) ==
  LET jsonMatch == RegexMatch(response)
      parsed == JSONParse(jsonMatch.text)
  IN IF jsonMatch.found
     THEN IF parsed.ok THEN Returned(ParsedTriple(parsed.members)) ELSE Thrown
     ELSE FellThrough

\* the fallback triple
FallbackTriple(text) ==
  [category |-> Str("Other"), priority |-> Str("Low"),
   summary |-> Str(WordCountSummary(text))]

\* a catch clause that lets the exception escape
CatchAndFallback_Rethrow(tryCompletion, text) ==
  IF tryCompletion.type = "normal" THEN Returned(FallbackTriple(text))
  ELSE tryCompletion

\* the catch clause and the statements after the try block
CatchAndFallback(tryCompletion, text) ==
  IF tryCompletion.type = "return" THEN tryCompletion
  ELSE Returned(FallbackTriple(text))

(***************************************************************************)
(* categorizeDocument: the orchestrator.                                   *)
(***************************************************************************)
\* categorizeDocument has returned nothing yet
NoResult == [category |-> Undefined, priority |-> Undefined, analysis |-> Undefined]

MinTextLength == 50

\* the extraction-failed test without the 'minimal' marker
isFailedExtraction_NoMinimalMarker(text) ==
  \/ Includes(text, "parsing failed")
  \/ Includes(text, "processing failed")
  \/ Len(text) < MinTextLength

isFailedExtraction(text) ==
  \/ Includes(text, "parsing failed")
  \/ Includes(text, "processing failed")
  \/ Includes(text, "minimal")
  \/ Len(text) < MinTextLength

\* the orchestrator returning the validated priority instead of the final one
AfterAdapter_ValidatedPriority(text, name, adapterCompletion) ==
  IF adapterCompletion.type = "throw" THEN [type |-> "throw", value |-> NoResult]
  ELSE LET validatedResult == validateAndOverrideCategories(text, name, adapterCompletion.value)
       IN [type |-> "return",
           value |-> [category |-> validatedResult.category,
                      priority |-> validatedResult.priority,
                      analysis |-> validatedResult.analysis]]

\* the statements of categorizeDocument after the adapter's promise settled
AfterAdapter(text, name, adapterCompletion) ==
  IF adapterCompletion.type = "throw" THEN [type |-> "throw", value |-> NoResult]
  ELSE LET validatedResult == validateAndOverrideCategories(text, name, adapterCompletion.value)
           finalPriority == getRuleBasedPriority(text, validatedResult.priority)
       IN [type |-> "return",
           value |-> [category |-> validatedResult.category,
                      priority |-> finalPriority,
                      analysis |-> validatedResult.analysis]]

(***************************************************************************)
(* Inputs of the model: document texts, file names and the behaviours of   *)
(* the AI service.                                                         *)
(***************************************************************************)
\* 50 and 49 characters without any keyword, trigger or failure marker
Preamble50 == "Please find the attached document for your records"

Preamble49 == "Please find the attached document for your record"

Preambles == {"", Preamble49, Preamble50}

Vocabulary == {"invoice", "Payment", "URGENT", "important", "minimal"}

RECURSIVE JoinWords(_, _)
\* the words appended to a text, each after one space (no space at the start)
JoinWords(text, words) ==
  IF words = <<>> THEN text
  ELSE JoinWords((IF text = "" THEN "" ELSE text \o " ") \o Head(words), Tail(words))

WordLists == UNION {[1..n -> Vocabulary] : n \in 0..MaxWords}

\* the text of the end-to-end scenario
ScenarioText ==
  "URGENT: please process this invoice payment immediately for the Finance department."

Texts == {JoinWords(p, ws) : p \in Preambles, ws \in WordLists} \cup {ScenarioText}

FileNames == {"scan.pdf", "legal_audit.pdf", "urgent_invoice_bill.pdf"}

\* raw outputs of the model: a bare JSON object, an object wrapped in prose,
\* an object followed by text with a closing brace, prose only, broken JSON,
\* the layout over several lines the prompt shows, members in another order
\* with one more, values that are not strings, a repeated key, a numeral
\* too small for a double
WrappedObjects == {o \in JsonObjects : DOMAIN o = {"category", "priority", "summary"}
                                       /\ o.category = "HR" /\ o.priority = "Medium"}

Responses ==
  {Stringify(o) : o \in JsonObjects}
  \cup {"Here is the result: " \o Stringify(o) \o " Hope this helps!" : o \in WrappedObjects}
  \cup {Stringify(o) \o " (fields: {category, priority, summary})" : o \in WrappedObjects}
  \cup {"I cannot classify this document.", "{category: HR", "{category: HR}", "} {"}
  \cup {"{\n  \"category\": \"HR\",\n  \"priority\": \"Medium\",\n  \"summary\": \"An invoice document.\"\n}",
        "{\"summary\":\"An invoice document.\",\"confidence\":0.9,\"priority\":\"High\",\"category\":\"Finance\"}",
        "{\"category\":null,\"priority\":0,\"summary\":false}",
        "{\"category\":[\"HR\"],\"priority\":2,\"summary\":{\"text\":\"An invoice document.\"}}",
        "{\"category\":\"HR\",\"category\":\"Finance\"}",
        "{\"category\":\"HR\",\"priority\":1e-400,\"summary\":\"An invoice document.\"}"}

\* the concurrent invocations of the model
NumCalls == 2

Calls == 1..NumCalls

NoOutcome == [kind |-> "none", text |-> ""]

ImportFailed == [kind |-> "importFailed", text |-> ""]

Rejected == [kind |-> "rejected", text |-> ""]

Responded(response) == [kind |-> "response", text |-> response]

\* an invocation that has not started: its local variables
IdleCall ==
  [pc |-> "idle", textContent |-> "", fileName |-> "", aiOutcome |-> NoOutcome,
   aiResult |-> NoAIResult, result |-> NoResult]

\* no concurrent invocation has started
NoCalls == [c \in Calls |-> IdleCall]

\* global.rateLimitStore before the first request: new Map()
EmptyStore == <<>>

\* no request has been answered
NoRequest == [ip |-> 0, at |-> 0, status |-> "none"]

\* the outcomes of performOCR: it threw, or it returned a text
OcrThrew == [threw |-> TRUE, text |-> ""]

OcrReturned(text) == [threw |-> FALSE, text |-> text]

\* a query without parameters
NoQuery == [category |-> "", priority |-> "", status |-> "", page |-> "", limit |-> ""]

\* no answer is sent
NoResponse ==
  [handler |-> "none", id |-> 0, status |-> 0, documents |-> <<>>, query |-> NoQuery,
   ocr |-> OcrThrew, since |-> [accepted |-> {}, deletedOk |-> {}]]

(***************************************************************************)
(* The state machine: one invocation of categorizeDocument at a time,      *)
(* suspended at its await points: the adapter at the import and at the     *)
(* request, categorizeDocument at the adapter's promise (line 19).         *)
(***************************************************************************)
Init ==
  /\ pc = "idle"
  /\ textContent = ""
  /\ fileName = ""
  /\ aiOutcome = NoOutcome
  /\ aiResult = NoAIResult
  /\ result = NoResult
  /\ aiRequests = 0
  /\ calls = NoCalls
  /\ rateLimitStore = EmptyStore
  /\ now = 0
  /\ crowdSeen = 0
  /\ lastRequest = NoRequest
  /\ plainStore = EmptyStore
  /\ plainLast = NoRequest
  /\ dbConnected = FALSE
  /\ dbDocuments = <<>>
  /\ processedDocuments = <<>>
  /\ disk = {}
  /\ nextId = 0
  /\ clock = 0
  /\ inFlight = EmptyBag
  /\ lastResponse = NoResponse
  /\ accepted = {}
  /\ deletedOk = {}
  /\ crashed = FALSE

\* categorizeDocument on a text whose extraction failed: lines 7-16
CategorizeDegraded(text, name) ==
  /\ pc = "idle"
  /\ isFailedExtraction(text)
  /\ textContent' = text
  /\ fileName' = name
  /\ result' = analyzeFromFilename(name)
  /\ pc' = "done"
  /\ UNCHANGED <<aiOutcome, aiResult, aiRequests, calls, rateVars, docVars>>

\* categorizeDocument up to the adapter's first await (the dynamic import)
CategorizeStart(text, name) ==
  /\ pc = "idle"
  /\ ~isFailedExtraction(text)
  /\ textContent' = text
  /\ fileName' = name
  /\ pc' = "import"
  /\ UNCHANGED <<aiOutcome, aiResult, result, aiRequests, calls, rateVars, docVars>>

\* the adapter resumes and runs to its end: its try block finished with
\* tryCompletion, then the catch clause and the fallback; its promise is
\* settled and categorizeDocument, suspended at line 19, is not resumed yet
Settle(outcome, tryCompletion) ==
  LET adapterCompletion == CatchAndFallback(tryCompletion, textContent)
  IN /\ aiOutcome' = outcome
     /\ aiResult' = adapterCompletion.value
     /\ pc' = IF adapterCompletion.type = "throw" THEN "rejected" ELSE "resolved"
     /\ UNCHANGED <<textContent, fileName, result>>

\* the import resolved: the prompt is built and the request is sent
ImportResolved ==
  /\ pc = "import"
  /\ aiRequests' = aiRequests + 1
  /\ pc' = "generate"
  /\ UNCHANGED <<textContent, fileName, aiOutcome, aiResult, result, calls, rateVars, docVars>>

\* the import rejected
ImportRejected ==
  /\ pc = "import"
  /\ Settle(ImportFailed, Thrown)
  /\ UNCHANGED <<aiRequests, calls, rateVars, docVars>>

\* a rejected request that is sent once more before the fallback is taken
GenerateRejected_Retries ==
  /\ pc = "generate"
  /\ IF aiRequests < 2
     THEN /\ aiRequests' = aiRequests + 1
          /\ UNCHANGED <<pc, textContent, fileName, aiOutcome, aiResult, result, calls, rateVars, docVars>>
     ELSE /\ Settle(Rejected, Thrown)
          /\ UNCHANGED <<aiRequests, calls, rateVars, docVars>>

\* generateContent rejected (network error, missing or invalid API key), or
\* result.response.text() threw
GenerateRejected ==
  /\ pc = "generate"
  /\ Settle(Rejected, Thrown)
  /\ UNCHANGED <<aiRequests, calls, rateVars, docVars>>

\* generateContent resolved with a raw output
GenerateResponded(response) ==
  /\ pc = "generate"
  /\ Settle(Responded(response), ParseResponse(response))
  /\ UNCHANGED <<aiRequests, calls, rateVars, docVars>>

\* categorizeDocument resumes at the await of line 19 with the settled promise
\* of the adapter and runs lines 20-35 to its end
Resume ==
  /\ pc \in {"resolved", "rejected"}
  /\ LET adapterCompletion == [type |-> IF pc = "rejected" THEN "throw" ELSE "return",
                               value |-> aiResult]
         completion == AfterAdapter(textContent, fileName, adapterCompletion)
     IN /\ result' = completion.value
        /\ pc' = IF completion.type = "throw" THEN "threw" ELSE "done"
  /\ UNCHANGED <<textContent, fileName, aiOutcome, aiResult,
                 aiRequests, calls, rateVars, docVars>>

\* the caller took the result (or the exception); the next invocation may start
Return ==
  /\ pc \in {"done", "threw"}
  /\ pc' = "idle"
  /\ textContent' = ""
  /\ fileName' = ""
  /\ aiOutcome' = NoOutcome
  /\ aiResult' = NoAIResult
  /\ result' = NoResult
  /\ aiRequests' = 0
  /\ UNCHANGED <<calls, rateVars, docVars>>

Next ==
  \/ \E text \in Texts, name \in FileNames : CategorizeDegraded(text, name)
  \/ \E text \in Texts, name \in FileNames : CategorizeStart(text, name)
  \/ ImportResolved
  \/ ImportRejected
  \/ GenerateRejected
  \/ \E response \in Responses : GenerateResponded(response)
  \/ Resume
  \/ Return

Spec == Init /\ [][Next]_vars

\* the event loop runs every continuation that is ready and the module loader
\* settles every import; nothing makes the AI service answer.  The third
\* conjunct is WF_vars(Resume) written out: Resume is enabled exactly when
\* the adapter's promise has settled, and it always changes pc
FairSpec ==
  /\ Spec
  /\ WF_vars(ImportResolved \/ ImportRejected)
  /\ ([]<>(pc \notin {"resolved", "rejected"}) \/ []<><<Resume>>_vars)
  /\ WF_vars(Return)

(***************************************************************************)
(* Concurrent invocations of categorizeDocument: every invocation has its  *)
(* own parameters and local variables, and the steps of different          *)
(* invocations interleave at the await points.  The module has no          *)
(* variable outside its functions.                                         *)
(***************************************************************************)
ConcTexts ==
  {Preamble49, JoinWords(Preamble50, <<"invoice", "Payment">>),
   JoinWords(Preamble50, <<"URGENT">>)}

ConcFileNames == {"scan.pdf", "legal_audit.pdf"}

ConcResponses ==
  {"{\"category\":\"HR\",\"priority\":\"Medium\",\"summary\":\"An invoice document.\"}",
   "I cannot classify this document."}

\* invocation c on a text whose extraction failed: lines 7-16
ConcCategorizeDegraded(c, text, name) ==
  /\ calls[c].pc = "idle"
  /\ isFailedExtraction(text)
  /\ calls' = [calls EXCEPT ![c] = [pc |-> "done", textContent |-> text, fileName |-> name,
                                    aiOutcome |-> NoOutcome, aiResult |-> NoAIResult,
                                    result |-> analyzeFromFilename(name)]]
  /\ UNCHANGED <<pc, textContent, fileName, aiOutcome,
                 aiResult, result, aiRequests, rateVars, docVars>>

\* invocation c up to the adapter's first await
ConcCategorizeStart(c, text, name) ==
  /\ calls[c].pc = "idle"
  /\ ~isFailedExtraction(text)
  /\ calls' = [calls EXCEPT ![c] = [pc |-> "import", textContent |-> text,
                                    fileName |-> name, aiOutcome |-> NoOutcome,
                                    aiResult |-> NoAIResult, result |-> NoResult]]
  /\ UNCHANGED <<pc, textContent, fileName, aiOutcome,
                 aiResult, result, aiRequests, rateVars, docVars>>

\* the import of invocation c resolved and its request is sent
ConcImportResolved(c) ==
  /\ calls[c].pc = "import"
  /\ calls' = [calls EXCEPT ![c].pc = "generate"]
  /\ UNCHANGED <<pc, textContent, fileName, aiOutcome,
                 aiResult, result, aiRequests, rateVars, docVars>>

\* an adapter that reads the text of another invocation in flight, as a
\* variable shared by the invocations would make it
ConcSettle_SharedText(c, outcome, tryCompletion) ==
  LET others == {d \in Calls \ {c} : calls[d].pc \in {"import", "generate"}}
      text == IF others = {} THEN calls[c].textContent
              ELSE calls[CHOOSE d \in others : TRUE].textContent
      adapterCompletion == CatchAndFallback(tryCompletion, text)
  IN /\ calls' = [calls EXCEPT ![c].aiOutcome = outcome,
                               ![c].aiResult = adapterCompletion.value,
                               ![c].pc = IF adapterCompletion.type = "throw"
                                         THEN "rejected" ELSE "resolved"]
     /\ UNCHANGED <<pc, textContent, fileName, aiOutcome, aiResult, result, aiRequests, rateVars, docVars>>

\* the adapter of invocation c resumes and runs to its end: its try block
\* finished with tryCompletion; its promise is settled and invocation c,
\* suspended at line 19, is not resumed yet
ConcSettle(c, outcome, tryCompletion) ==
  LET adapterCompletion == CatchAndFallback(tryCompletion, calls[c].textContent)
  IN /\ calls' = [calls EXCEPT ![c].aiOutcome = outcome,
                               ![c].aiResult = adapterCompletion.value,
                               ![c].pc = IF adapterCompletion.type = "throw"
                                         THEN "rejected" ELSE "resolved"]
     /\ UNCHANGED <<pc, textContent, fileName, aiOutcome, aiResult, result, aiRequests, rateVars, docVars>>

\* invocation c resumes at the await of line 19 with the settled promise of
\* its adapter and runs lines 20-35 to its end
ConcResume(c) ==
  LET adapterCompletion == [type |-> IF calls[c].pc = "rejected" THEN "throw" ELSE "return",
                            value |-> calls[c].aiResult]
      completion == AfterAdapter(calls[c].textContent, calls[c].fileName,
                                 adapterCompletion)
  IN /\ calls[c].pc \in {"resolved", "rejected"}
     /\ calls' = [calls EXCEPT ![c].result = completion.value,
                               ![c].pc = IF completion.type = "throw" THEN "threw"
                                         ELSE "done"]
     /\ UNCHANGED <<pc, textContent, fileName, aiOutcome, aiResult, result, aiRequests, rateVars, docVars>>

ConcImportRejected(c) ==
  /\ calls[c].pc = "import"
  /\ ConcSettle(c, ImportFailed, Thrown)

ConcGenerateRejected(c) ==
  /\ calls[c].pc = "generate"
  /\ ConcSettle(c, Rejected, Thrown)

ConcGenerateResponded(c, response) ==
  /\ calls[c].pc = "generate"
  /\ ConcSettle(c, Responded(response), ParseResponse(response))

ConcNext ==
  \/ \E c \in Calls, text \in ConcTexts, name \in ConcFileNames :
        ConcCategorizeDegraded(c, text, name)
  \/ \E c \in Calls, text \in ConcTexts, name \in ConcFileNames :
        ConcCategorizeStart(c, text, name)
  \/ \E c \in Calls : ConcImportResolved(c)
  \/ \E c \in Calls : ConcImportRejected(c)
  \/ \E c \in Calls : ConcGenerateRejected(c)
  \/ \E c \in Calls, response \in ConcResponses : ConcGenerateResponded(c, response)
  \/ \E c \in Calls : ConcResume(c)

ConcurrentSpec == Init /\ [][ConcNext]_vars

(***************************************************************************)
(* The filename-only analyzer over file names made of words: invocations   *)
(* of categorizeDocument on a text too short to be analysed.               *)
(***************************************************************************)
NameWords == {"contract", "invoice", "bill", "Urgent", "notice", "scan"}

RECURSIVE JoinName(_)
\* the words of a file name joined by underscores
JoinName(words) ==
  IF words = <<>> THEN ""
  ELSE IF Len(words) = 1 THEN Head(words)
  ELSE Head(words) \o "_" \o JoinName(Tail(words))

NameWordLists == UNION {[1..n -> NameWords] : n \in 0..MaxNameWords}

GeneratedFileNames == {JoinName(ws) \o ".pdf" : ws \in NameWordLists}

FilenameNext ==
  \/ \E name \in GeneratedFileNames : CategorizeDegraded(Preamble49, name)
  \/ Return

FilenameSpec == Init /\ [][FilenameNext]_vars

(***************************************************************************)
(* services/ocrService.js: the strings the extraction returns in place of  *)
(* a text when it fails or finds too little, and the invocations of        *)
(* categorizeDocument on them.                                             *)
(***************************************************************************)
\* line 21 of main
MinimalContentPlaceholder(name) ==
  name \o " - Document uploaded but text extraction yielded minimal content. Using filename for analysis."

\* main, lines 18-29: an empty text, or one of fewer than 5 characters once
\* trimmed, is replaced
OcrMain(extractedText, name) ==
  IF extractedText = "" \/ Len(Trim(extractedText)) < 5
  THEN MinimalContentPlaceholder(name)
  ELSE extractedText

UnsupportedPlaceholder(name, extension) ==
  name \o " - Unsupported file format " \o extension

PdfUnsuccessfulPlaceholder(name, fileSize) ==
  name \o " (" \o fileSize
  \o " KB PDF) - Content extraction unsuccessful. This PDF may contain minimal readable text, be encrypted, or contain primarily images."

PdfErrorPlaceholder(name, message) == name \o " - PDF processing error: " \o message

ImageMinimalPlaceholder(name) ==
  name \o " - Image processed but contains minimal readable text. The image may be unclear, low quality, or contain non-text content."

OcrFailedPlaceholder(name, message) == name \o " - OCR processing failed: " \o message

DocxMinimalPlaceholder(name) == name \o " - Word document contains minimal text content."

DocxFailedPlaceholder(name, message) == name \o " - DOCX processing failed: " \o message

TxtMinimalPlaceholder(name) ==
  name \o " - Text file is empty or contains minimal content."

TxtFailedPlaceholder(name, message) == name \o " - Text file reading failed: " \o message

\* messages of the errors the extraction catches
ErrorMessages == {"EACCES", "ENOENT: no such file or directory, open 'uploads/file'"}

FileSizes == {"12.34"}

StoredBaseNames == {"scan", "1730366400000-report"}

Extensions == {".pdf", ".PDF", ".png", ".docx", ".txt", ".xlsx"}

\* performOCRAndAnalysis on a file whose extraction fails or finds too little
FailedExtractions(base, extension) ==
  LET name == base \o extension
      fileExtension == ToLowerCase(extension)
  IN IF fileExtension = ".pdf"
     THEN {PdfUnsuccessfulPlaceholder(name, size) : size \in FileSizes}
          \cup {PdfErrorPlaceholder(name, m) : m \in ErrorMessages}
     ELSE IF fileExtension \in {".jpeg", ".jpg", ".png"}
     THEN {ImageMinimalPlaceholder(name)}
          \cup {OcrFailedPlaceholder(name, m) : m \in ErrorMessages}
     ELSE IF fileExtension = ".docx"
     THEN {DocxMinimalPlaceholder(name)}
          \cup {DocxFailedPlaceholder(name, m) : m \in ErrorMessages}
     ELSE IF fileExtension = ".txt"
     THEN {TxtMinimalPlaceholder(name)}
          \cup {TxtFailedPlaceholder(name, m) : m \in ErrorMessages}
     ELSE {UnsupportedPlaceholder(name, fileExtension)}

\* what main returns for the files whose extraction fails
OcrPlaceholders ==
  UNION {{OcrMain(t, base \o extension) : t \in FailedExtractions(base, extension)} :
           base \in StoredBaseNames, extension \in Extensions}

OcrNext ==
  \/ \E text \in OcrPlaceholders, name \in FileNames : CategorizeDegraded(text, name)
  \/ \E text \in OcrPlaceholders, name \in FileNames : CategorizeStart(text, name)
  \/ ImportResolved
  \/ ImportRejected
  \/ GenerateRejected
  \/ \E response \in ConcResponses : GenerateResponded(response)
  \/ Resume
  \/ Return

OcrSpec == Init /\ [][OcrNext]_vars

(***************************************************************************)
(* The keyword validator on texts and file names whose junction spells a   *)
(* keyword that neither holds on its own ("March" before "report.pdf"      *)
(* spells "hr").                                                           *)
(***************************************************************************)
JunctionWords == {"March", "invoice", "staff"}

JunctionTexts ==
  {JoinWords(Preamble50, ws) : ws \in UNION {[1..n -> JunctionWords] : n \in 0..MaxWords}}

JunctionFileNames == {"report.pdf", "scan.pdf", "invoice.pdf"}

KeywordNext ==
  \/ \E text \in JunctionTexts, name \in JunctionFileNames : CategorizeStart(text, name)
  \/ ImportResolved
  \/ ImportRejected
  \/ GenerateRejected
  \/ \E response \in ConcResponses : GenerateResponded(response)
  \/ Resume
  \/ Return

KeywordSpec == Init /\ [][KeywordNext]_vars

(***************************************************************************)
(* validateRateLimit: the request validation middleware keeping, for every *)
(* client address, the instants of its admitted requests in                *)
(* global.rateLimitStore.  A Map is a function from its keys to their      *)
(* values; a client address is a number.                                   *)
(***************************************************************************)
WindowMs == 60000

MaxRequests == 100

CleanupSize == 1000

\* global.rateLimitStore.get(ip) || []
StoreGet(store, ip) == IF ip \in DOMAIN store THEN store[ip] ELSE <<>>

\* global.rateLimitStore.set(ip, value)
StoreSet(store, ip, value) ==
  [key \in DOMAIN store \cup {ip} |-> IF key = ip THEN value ELSE store[key]]

\* requests.filter(time => now - time < 60000)
RecentRequests(requests, instant) ==
  SelectSeq(requests, LAMBDA time : instant - time < WindowMs)

\* a cleanup pass whose cutoff is the current instant
Cleanup_CutoffNow(store, instant) ==
  LET cutoff == instant
      kept == {key \in DOMAIN store :
                 SelectSeq(store[key], LAMBDA t : t > cutoff) # <<>>}
  IN [key \in kept |-> SelectSeq(store[key], LAMBDA t : t > cutoff)]

\* the cleanup pass over global.rateLimitStore.entries()
Cleanup(store, instant) ==
  LET cutoff == instant - WindowMs
      kept == {key \in DOMAIN store :
                 SelectSeq(store[key], LAMBDA t : t > cutoff) # <<>>}
  IN [key \in kept |-> SelectSeq(store[key], LAMBDA t : t > cutoff)]

\* a limiter that records the instant of a request before it tests the limit
validateRateLimit_RecordsRejected(store, ip, instant) ==
  LET requests == StoreGet(store, ip)
      recentRequests == RecentRequests(requests, instant)
      pushed == StoreSet(store, ip, Append(recentRequests, instant))
  IN IF Len(recentRequests) > MaxRequests
     THEN [status |-> "429", store |-> pushed]
     ELSE [status |-> "next",
           store |-> IF Cardinality(DOMAIN pushed) > CleanupSize
                     THEN Cleanup(pushed, instant) ELSE pushed]

\* one call of the middleware: the answer (next() or the 429 error) and the
\* store it leaves
validateRateLimit(store, ip, instant) ==
  LET requests == StoreGet(store, ip)
      recentRequests == RecentRequests(requests, instant)
      pushed == StoreSet(store, ip, Append(recentRequests, instant))
  IN IF Len(recentRequests) > MaxRequests
     THEN [status |-> "429", store |-> store]
     ELSE [status |-> "next",
           store |-> IF Cardinality(DOMAIN pushed) > CleanupSize
                     THEN Cleanup(pushed, instant) ELSE pushed]

\* the middleware without its cleanup pass
validateRateLimitNoCleanup(store, ip, instant) ==
  LET requests == StoreGet(store, ip)
      recentRequests == RecentRequests(requests, instant)
  IN IF Len(recentRequests) > MaxRequests
     THEN [status |-> "429", store |-> store]
     ELSE [status |-> "next",
           store |-> StoreSet(store, ip, Append(recentRequests, instant))]

(***************************************************************************)
(* The clients of the middleware: a crowd of CrowdSize clients, each       *)
(* sending one request at the first instant, then one client that sends    *)
(* requests as the clock advances by half a window or a whole one.         *)
(***************************************************************************)
CrowdSize == 1000

MaxNow == 90000

\* the client that keeps sending requests
BusyClient == 0

ClockSteps == {30000, 60000}

\* a request of client ip at the current instant, answered by the middleware
Request(ip) ==
  LET answer == validateRateLimit(rateLimitStore, ip, now)
      plain == validateRateLimitNoCleanup(plainStore, ip, now)
  IN /\ rateLimitStore' = answer.store
     /\ lastRequest' = [ip |-> ip, at |-> now, status |-> answer.status]
     /\ plainStore' = plain.store
     /\ plainLast' = [ip |-> ip, at |-> now, status |-> plain.status]
     /\ UNCHANGED <<now, pipelineVars, docVars>>

\* the next client of the crowd sends its request
CrowdRequest ==
  /\ crowdSeen < CrowdSize
  /\ crowdSeen' = crowdSeen + 1
  /\ Request(crowdSeen + 1)

\* the busy client sends a request
BusyRequest ==
  /\ crowdSeen = CrowdSize
  /\ UNCHANGED crowdSeen
  /\ Request(BusyClient)

\* time passes between two requests
Tick(step) ==
  /\ crowdSeen = CrowdSize
  /\ now + step <= MaxNow
  /\ now' = now + step
  /\ UNCHANGED <<rateLimitStore, crowdSeen, lastRequest, plainStore, plainLast,
                 pipelineVars, docVars>>

RateNext ==
  \/ CrowdRequest
  \/ BusyRequest
  \/ \E step \in ClockSteps : Tick(step)

RateSpec == Init /\ [][RateNext]_vars

(***************************************************************************)
(* The document controller (controllers/fileController.js) over the        *)
(* database service (config/database.js): processFile, getDocuments,       *)
(* getDocumentById, downloadFile and deleteDocument, each trying the       *)
(* database first and falling back to the in-memory list                   *)
(* processedDocuments when the database service throws.                    *)
(*                                                                         *)
(* A handler runs from one await to the next in one step, and the steps of *)
(* the requests being served are taken in any order.  A call of the        *)
(* database service takes three steps: the handler calls and is suspended, *)
(* the database runs the operation or fails it, the handler resumes.  What *)
(* categorizeDocument, uploadToAzure and sendNotification answer does not  *)
(* depend on the documents, so their answer is chosen in the step in which *)
(* the handler resumes with it.  An error a handler throws rejects the     *)
(* promise of the handler: the step of the throw runs the catch clauses of *)
(* the handler, and asyncHandler passes the error to errorHandler, which   *)
(* answers, in a later step.  A stream is created in the step in which     *)
(* downloadFile returns, opens its file in a later step and is piped into  *)
(* the answer in a third; an exception thrown outside every handler ends   *)
(* the process.                                                            *)
(*                                                                         *)
(* A document identifier (uuidv4) is a number; the path of an uploaded     *)
(* file is the number of its upload and its size the length of its         *)
(* content; createdAt is the number of the record among those created.  An *)
(* answer is modelled by its status code and its documents; an error is    *)
(* its statusCode, 0 when it has none.  lastResponse is the answer sent in *)
(* the last step, NoResponse when that step sent none; since is what the   *)
(* client had been answered about the documents of its request when it     *)
(* sent the request.                                                       *)
(***************************************************************************)
MaxDocs == 2

MaxInFlight == 2

\* the result of a lookup that found nothing (null or undefined)
NoDocument ==
  [id |-> 0, filename |-> "", category |-> Undefined, priority |-> Undefined, status |-> "",
   fileSize |-> 0, createdAt |-> 0]

\* categorizeDocument as processFile awaits it, tryCompletion being how the
\* try block of the AI adapter ends
categorizeDocument(text, name, tryCompletion) ==
  IF isFailedExtraction(text) THEN analyzeFromFilename(name)
  ELSE AfterAdapter(text, name, CatchAndFallback(tryCompletion, text)).value

\* extractTextFromTXT on the content readFileSync returns: the content
\* trimmed when that has more than 5 characters
extractTextFromTXT(content, name) ==
  IF content # "" /\ Len(Trim(content)) > 5 THEN Trim(content)
  ELSE TxtMinimalPlaceholder(name)

\* performOCR (main of ocrService.js) on an uploaded text file stored under
\* its name: performOCRAndAnalysis takes the branch of ".txt", and main
\* replaces a text of fewer than 5 characters
performOCR(content, name) == OcrReturned(OcrMain(extractTextFromTXT(content, name), name))

\* Array.prototype.find / Document.findOne({ id }): the first document with the
\* identifier, or nothing
FindById(documents, id) ==
  IF \E i \in 1..Len(documents) : documents[i].id = id
  THEN documents[CHOOSE i \in 1..Len(documents) :
                    /\ documents[i].id = id
                    /\ \A j \in 1..(i - 1) : documents[j].id # id]
  ELSE NoDocument

\* documents.filter(d => d.id !== id) / findOneAndDelete({ id })
WithoutId(documents, id) == SelectSeq(documents, LAMBDA d : d.id # id)

RECURSIVE NewestFirst(_)
\* sort({ createdAt: -1 })
NewestFirst(documents) ==
  IF documents = <<>> THEN <<>>
  ELSE LET newest == CHOOSE i \in 1..Len(documents) :
                        \A j \in 1..Len(documents) :
                           documents[j].createdAt <= documents[i].createdAt
       IN <<documents[newest]>>
          \o NewestFirst(SubSeq(documents, 1, newest - 1)
                         \o SubSeq(documents, newest + 1, Len(documents)))

\* the validators of documentSchema on category and priority
PassesSchema(doc) ==
  /\ doc.category \in {Str(label) : label \in CategoryLabels}
  /\ doc.priority \in {Str(label) : label \in PriorityLabels}

RECURSIVE HexadecimalValue(_)
\* the number a string of hexadecimal digits writes
HexadecimalValue(digits) ==
  IF digits = "" THEN 0
  ELSE 16 * HexadecimalValue(SubSeq(digits, 1, Len(digits) - 1))
       + HexValue(SubSeq(digits, Len(digits), Len(digits)))

\* parseInt on the text of a query parameter: the digits at its start, after
\* whitespace and a sign, hexadecimal ones after 0x; NaN without a digit there
ParseInt(s) ==
  LET start == CHOOSE j \in 1..(Len(s) + 1) :
                 /\ At(s, j) \notin TrimWhitespace
                 /\ \A k \in 1..(j - 1) : At(s, k) \in TrimWhitespace
      signed == At(s, start) \in {"+", "-"}
      prefix == IF signed THEN start + 1 ELSE start
      hexadecimal == At(s, prefix) = "0" /\ At(s, prefix + 1) \in {"x", "X"}
      first == IF hexadecimal THEN prefix + 2 ELSE prefix
      end == IF hexadecimal
             THEN CHOOSE j \in first..(Len(s) + 1) :
                    /\ ~IsHexDigit(At(s, j))
                    /\ \A k \in first..(j - 1) : IsHexDigit(At(s, k))
             ELSE DigitsEnd(s, first)
      digits == SubSeq(s, first, end - 1)
      value == IF hexadecimal THEN HexadecimalValue(digits) ELSE DecimalValue(digits)
  IN [nan |-> end = first, value |-> IF At(s, start) = "-" THEN 0 - value ELSE value]

\* const { page = 1, limit = 50 } = req.query, then parseInt: a parameter
\* that is absent has its default
ParameterOr(parameter, default) ==
  IF parameter = "" THEN [nan |-> FALSE, value |-> default] ELSE ParseInt(parameter)

\* the fallback of getDocuments: lines 176-183
MemoryGetDocuments(memory, query) ==
  SelectSeq(memory, LAMBDA doc :
     /\ (query.category # "" => doc.category = Str(query.category))
     /\ (query.priority # "" => doc.priority = Str(query.priority)))

\* DatabaseService.getDocuments: find(query).sort().skip().limit(), for a
\* page and a limit of 1 or more
DatabaseGetDocuments(database, query) ==
  LET page == ParameterOr(query.page, 1).value
      limit == ParameterOr(query.limit, 50).value
      skip == (page - 1) * limit
      found == NewestFirst(SelectSeq(database, LAMBDA doc :
                 /\ (query.category # "" => doc.category = Str(query.category))
                 /\ (query.priority # "" => doc.priority = Str(query.priority))
                 /\ (query.status # "" => doc.status = query.status)))
  IN IF skip >= Len(found) THEN <<>>
     ELSE SubSeq(found, skip + 1, IF skip + limit < Len(found) THEN skip + limit
                                  ELSE Len(found))

\* findOneAndUpdate({ id }, { $set: updates }): the fields of updates replace
\* those of the document with the identifier
WithUpdates(documents, id, updates) ==
  [i \in 1..Len(documents) |->
     IF documents[i].id = id
     THEN [field \in DOMAIN documents[i] |->
             IF field \in DOMAIN updates THEN updates[field] ELSE documents[i][field]]
     ELSE documents[i]]

\* the catch clause of processFile leaving the uploaded file on the disk
CleanUp_KeepsFile(files, filePath) == files

\* the catch clause of processFile: lines 126-128
CleanUp(files, filePath) == files \ {filePath}

\* the test of line 40 on what performOCR answered
ExtractionTooShort(extractedText) == extractedText = "" \/ Len(Trim(extractedText)) < 5

\* err.statusCode || 500 of errorHandler
StatusOf(statusCode) == IF statusCode = 0 THEN 500 ELSE statusCode

(***************************************************************************)
(* The requests of the clients, the answers of the services and the        *)
(* connectivity of the database.                                           *)
(***************************************************************************)
\* the uploads are text files
DocNames == {"invoice.txt"}

\* a text long enough for the AI path
MinutesText == "The committee met on Tuesday and agreed the agenda for the next quarter."

\* what the uploaded files hold: nothing, or a text for the AI path
FileContents == {"", MinutesText}

\* how the try block of the AI adapter ends for an upload: with an answer
\* inside the enumerations of the schema, or outside them
DocCompletions ==
  {ParseResponse("{\"category\":\"HR\",\"priority\":\"Medium\",\"summary\":\"Minutes of a meeting.\"}"),
   ParseResponse("{\"category\":\"Banana\"}")}

\* the identifier the lookups and the deletions name
DocIds == {1}

\* the queries of getDocuments: every filter, and the second page of one
Queries ==
  {[category |-> "HR", priority |-> "Medium", status |-> "failed", page |-> "", limit |-> ""],
   [category |-> "", priority |-> "", status |-> "", page |-> "2", limit |-> "1"]}

\* the fields updateDocument sets
Updates == {[category |-> Str("HR"), status |-> "failed"]}

\* the requests being served
Serving == BagToSet(inFlight)

\* a request nobody has answered yet: what the handler holds at its await
NewRequest(handler, await, id) ==
  [handler |-> handler, await |-> await, promise |-> "pending", id |-> id,
   document |-> NoDocument, documents |-> <<>>, query |-> NoQuery, ocr |-> OcrThrew,
   content |-> "", statusCode |-> 0,
   since |-> [accepted |-> accepted \cap {id},
              deletedOk |-> IF handler = "getDocuments" THEN deletedOk
                            ELSE deletedOk \cap {id}]]

\* the promise DatabaseService returns from a call: it rejects at once when
\* mongoose.connection.readyState is not 1
Called(connected) == IF connected THEN "sent" ELSE "rejected"

\* a handler is entered and runs to its first await
Starts(request) ==
  /\ ~crashed
  /\ BagCardinality(inFlight) < MaxInFlight
  /\ inFlight' = inFlight (+) SetToBag({request})

\* a handler goes on to its next await
Continues(request, next) ==
  inFlight' = (inFlight (-) SetToBag({request})) (+) SetToBag({next})

\* a handler has returned and its request is answered
Ends(request) == inFlight' = inFlight (-) SetToBag({request})

\* a step in which no handler answers
NoAnswer == lastResponse' = NoResponse

\* res.json / res.status().json, the stream piped into the answer, or the
\* error handler answering for the handler
Answers(request, status, documents) ==
  lastResponse' = [handler |-> request.handler, id |-> request.id, status |-> status,
                   documents |-> documents, query |-> request.query, ocr |-> request.ocr,
                   since |-> request.since]

\* the promise of a handler is rejected with an error: the request is left
\* to the catch of asyncHandler
Throws(request, statusCode) ==
  [request EXCEPT !.await = "errorHandler", !.promise = "pending", !.content = "",
                  !.document = NoDocument, !.statusCode = statusCode]

\* mongoose.connection.readyState becomes 1
DbConnect ==
  /\ ~crashed
  /\ ~dbConnected
  /\ dbConnected' = TRUE
  /\ NoAnswer
  /\ UNCHANGED <<dbDocuments, processedDocuments, disk, nextId, clock, inFlight,
                 accepted, deletedOk, crashed, pipelineVars, rateVars>>

\* the connection to the database is lost
DbDisconnect ==
  /\ ~crashed
  /\ dbConnected
  /\ dbConnected' = FALSE
  /\ NoAnswer
  /\ UNCHANGED <<dbDocuments, processedDocuments, disk, nextId, clock, inFlight,
                 accepted, deletedOk, crashed, pipelineVars, rateVars>>

\* an operation sent to the database fails: a timeout, a lost socket
DatabaseFails(request) ==
  /\ request.promise = "sent"
  /\ Continues(request, [request EXCEPT !.promise = "rejected"])
  /\ NoAnswer
  /\ UNCHANGED <<dbConnected, dbDocuments, processedDocuments, disk, nextId, clock,
                 accepted, deletedOk, crashed, pipelineVars, rateVars>>

\* asyncHandler passes the error of a handler to errorHandler, which answers
\* with its statusCode, 500 when it has none: errorHandler.js lines 24-28 and
\* 33-98
ErrorHandler(request) ==
  /\ request.await = "errorHandler"
  /\ Ends(request)
  /\ Answers(request, StatusOf(request.statusCode), <<>>)
  /\ UNCHANGED <<dbConnected, dbDocuments, processedDocuments, disk, nextId, clock,
                 accepted, deletedOk, crashed, pipelineVars, rateVars>>

\* POST /api/process-file without a file: lines 19-23 throw
ProcessFileWithoutFile ==
  /\ Starts(Throws(NewRequest("processFile", "none", 0), 400))
  /\ NoAnswer
  /\ UNCHANGED <<dbConnected, dbDocuments, processedDocuments, disk, nextId, clock,
                 accepted, deletedOk, crashed, pipelineVars, rateVars>>

\* POST /api/process-file with an uploaded file, up to the await of performOCR:
\* lines 25-38
ProcessFile(name, content) ==
  /\ nextId < MaxDocs
  /\ LET fileId == nextId + 1
     IN /\ nextId' = fileId
        /\ disk' = disk \cup {fileId}
        /\ Starts([NewRequest("processFile", "performOCR", fileId)
                     EXCEPT !.content = content,
                            !.document = [NoDocument EXCEPT !.id = fileId,
                                                            !.filename = name,
                                                            !.fileSize = Len(content)]])
  /\ NoAnswer
  /\ UNCHANGED <<dbConnected, dbDocuments, processedDocuments, clock,
                 accepted, deletedOk, crashed, pipelineVars, rateVars>>

\* processFile resumes with the outcome of performOCR and goes on to
\* categorizeDocument, lines 38-45, or throws: the catch clause of lines
\* 124-130 removes the file and throws the error again
OcrSettled(request, ocr) ==
  /\ request.handler = "processFile"
  /\ request.await = "performOCR"
  /\ IF ocr.threw \/ ExtractionTooShort(ocr.text)
     THEN /\ disk' = CleanUp(disk, request.id)
          /\ Continues(request, [Throws(request, IF ocr.threw THEN 0 ELSE 400)
                                   EXCEPT !.ocr = ocr])
     ELSE /\ Continues(request, [request EXCEPT !.await = "categorizeDocument",
                                                !.content = "", !.ocr = ocr])
          /\ UNCHANGED disk
  /\ NoAnswer
  /\ UNCHANGED <<dbConnected, dbDocuments, processedDocuments, nextId, clock,
                 accepted, deletedOk, crashed, pipelineVars, rateVars>>

\* processFile resumes with the classification: lines 45-50
CategorizeSettled(request, tryCompletion) ==
  /\ request.handler = "processFile"
  /\ request.await = "categorizeDocument"
  /\ LET classified == categorizeDocument(request.ocr.text, request.document.filename,
                                         tryCompletion)
     IN Continues(request,
                  [request EXCEPT !.await = "uploadToAzure",
                                  !.document.category = classified.category,
                                  !.document.priority = classified.priority])
  /\ NoAnswer
  /\ UNCHANGED <<dbConnected, dbDocuments, processedDocuments, disk, nextId, clock,
                 accepted, deletedOk, crashed, pipelineVars, rateVars>>

\* DatabaseService.saveDocument: it rejects when the database is not
\* connected or the record fails the validators of the schema, else the
\* record is sent to the database
SaveCalled(connected, documentData) ==
  IF PassesSchema(documentData) THEN Called(connected) ELSE "rejected"

\* processFile resumes after uploadToAzure, whether it failed or not, builds
\* the record and calls DatabaseService.saveDocument, where the record has
\* its createdAt: lines 50-84
AzureSettled(request) ==
  /\ request.handler = "processFile"
  /\ request.await = "uploadToAzure"
  /\ clock' = clock + 1
  /\ LET documentData == [request.document EXCEPT !.status = "completed",
                                                  !.createdAt = clock + 1]
     IN Continues(request, [request EXCEPT !.await = "saveDocument",
                                           !.promise = SaveCalled(dbConnected, documentData),
                                           !.document = documentData])
  /\ NoAnswer
  /\ UNCHANGED <<dbConnected, dbDocuments, processedDocuments, disk, nextId,
                 accepted, deletedOk, crashed, pipelineVars, rateVars>>

\* the database runs the insertion of document.save()
SaveRuns(request) ==
  /\ request.await = "saveDocument"
  /\ request.promise = "sent"
  /\ dbConnected
  /\ dbDocuments' = Append(dbDocuments, request.document)
  /\ Continues(request, [request EXCEPT !.promise = "resolved"])
  /\ NoAnswer
  /\ UNCHANGED <<dbConnected, processedDocuments, disk, nextId, clock,
                 accepted, deletedOk, crashed, pipelineVars, rateVars>>

\* processFile resumes after saveDocument and calls sendNotification:
\* lines 84-95
SaveSettled(request) ==
  /\ request.await = "saveDocument"
  /\ request.promise \in {"resolved", "rejected"}
  /\ processedDocuments' = IF request.promise = "rejected"
                           THEN Append(processedDocuments, request.document)
                           ELSE processedDocuments
  /\ Continues(request, [request EXCEPT !.await = "sendNotification", !.promise = "pending"])
  /\ NoAnswer
  /\ UNCHANGED <<dbConnected, dbDocuments, disk, nextId, clock,
                 accepted, deletedOk, crashed, pipelineVars, rateVars>>

\* processFile resumes after sendNotification, whether it failed or not, and
\* answers: lines 95-122
NotificationSettled(request) ==
  /\ request.handler = "processFile"
  /\ request.await = "sendNotification"
  /\ Ends(request)
  /\ Answers(request, 201, <<request.document>>)
  /\ accepted' = accepted \cup {request.id}
  /\ UNCHANGED <<dbConnected, dbDocuments, processedDocuments, disk, nextId, clock,
                 deletedOk, crashed, pipelineVars, rateVars>>

\* GET /api/documents up to the await of DatabaseService.getDocuments:
\* lines 137-150
GetDocuments(query) ==
  /\ Starts([NewRequest("getDocuments", "getDocuments", 0)
               EXCEPT !.query = query, !.promise = Called(dbConnected)])
  /\ NoAnswer
  /\ UNCHANGED <<dbConnected, dbDocuments, processedDocuments, disk, nextId, clock,
                 accepted, deletedOk, crashed, pipelineVars, rateVars>>

\* the database runs the find of getDocuments
FindRuns(request) ==
  /\ request.await = "getDocuments"
  /\ request.promise = "sent"
  /\ dbConnected
  /\ Continues(request, [request EXCEPT
                           !.promise = "resolved",
                           !.documents = DatabaseGetDocuments(dbDocuments, request.query)])
  /\ NoAnswer
  /\ UNCHANGED <<dbConnected, dbDocuments, processedDocuments, disk, nextId, clock,
                 accepted, deletedOk, crashed, pipelineVars, rateVars>>

\* getDocuments resumes and answers from the database, or from the list when
\* the call threw: lines 152-204
GetDocumentsSettled(request) ==
  /\ request.await = "getDocuments"
  /\ request.promise \in {"resolved", "rejected"}
  /\ Ends(request)
  /\ Answers(request, 200,
             IF request.promise = "resolved" THEN request.documents
             ELSE MemoryGetDocuments(processedDocuments, request.query))
  /\ UNCHANGED <<dbConnected, dbDocuments, processedDocuments, disk, nextId, clock,
                 accepted, deletedOk, crashed, pipelineVars, rateVars>>

\* a handler that has called DatabaseService.getDocumentById and awaits it
LookupDocument(handler, id) ==
  [NewRequest(handler, "getDocumentById", id) EXCEPT !.promise = Called(dbConnected)]

\* GET /api/documents/:id up to the await of the lookup: lines 256-261
GetDocumentById(id) ==
  /\ Starts(LookupDocument("getDocumentById", id))
  /\ NoAnswer
  /\ UNCHANGED <<dbConnected, dbDocuments, processedDocuments, disk, nextId, clock,
                 accepted, deletedOk, crashed, pipelineVars, rateVars>>

\* GET /api/download/:id up to the await of the lookup: lines 211-216
DownloadFile(id) ==
  /\ Starts(LookupDocument("downloadFile", id))
  /\ NoAnswer
  /\ UNCHANGED <<dbConnected, dbDocuments, processedDocuments, disk, nextId, clock,
                 accepted, deletedOk, crashed, pipelineVars, rateVars>>

\* DELETE /api/documents/:id up to the await of the lookup: lines 327-334
DeleteDocument(id) ==
  /\ Starts(LookupDocument("deleteDocument", id))
  /\ NoAnswer
  /\ UNCHANGED <<dbConnected, dbDocuments, processedDocuments, disk, nextId, clock,
                 accepted, deletedOk, crashed, pipelineVars, rateVars>>

\* the database runs Document.findOne({ id })
FindOneRuns(request) ==
  /\ request.await = "getDocumentById"
  /\ request.promise = "sent"
  /\ dbConnected
  /\ Continues(request, [request EXCEPT !.promise = "resolved",
                                        !.document = FindById(dbDocuments, request.id)])
  /\ NoAnswer
  /\ UNCHANGED <<dbConnected, dbDocuments, processedDocuments, disk, nextId, clock,
                 accepted, deletedOk, crashed, pipelineVars, rateVars>>

\* the document a handler holds after its lookup: the answer of the
\* database, or what the list holds when the call threw
LookedUp(request, memory) ==
  IF request.promise = "resolved" THEN request.document ELSE FindById(memory, request.id)

\* getDocumentById resumes and answers, or throws when it holds no document:
\* lines 261-286
GetDocumentByIdSettled(request) ==
  /\ request.handler = "getDocumentById"
  /\ request.await = "getDocumentById"
  /\ request.promise \in {"resolved", "rejected"}
  /\ LET document == LookedUp(request, processedDocuments)
     IN IF document = NoDocument
        THEN /\ Continues(request, Throws(request, 404))
             /\ NoAnswer
        ELSE /\ Ends(request)
             /\ Answers(request, 200, <<document>>)
  /\ UNCHANGED <<dbConnected, dbDocuments, processedDocuments, disk, nextId, clock,
                 accepted, deletedOk, crashed, pipelineVars, rateVars>>

\* downloadFile resumes and throws when it holds no document or the file is
\* gone; else it sets the headers, where a Content-Length of undefined, which
\* the size 0 gives, throws a TypeError, creates the stream and returns:
\* lines 216-249
DownloadFileSettled(request) ==
  /\ request.handler = "downloadFile"
  /\ request.await = "getDocumentById"
  /\ request.promise \in {"resolved", "rejected"}
  /\ LET document == LookedUp(request, processedDocuments)
     IN Continues(request,
                  IF document = NoDocument \/ document.id \notin disk
                  THEN Throws(request, 404)
                  ELSE IF document.fileSize = 0
                  THEN Throws(request, 0)
                  ELSE [request EXCEPT !.await = "createReadStream",
                                       !.promise = "pending",
                                       !.document = document])
  /\ NoAnswer
  /\ UNCHANGED <<dbConnected, dbDocuments, processedDocuments, disk, nextId, clock,
                 accepted, deletedOk, crashed, pipelineVars, rateVars>>

\* the stream of line 242 opens its file
StreamOpens(request) ==
  /\ request.await = "createReadStream"
  /\ request.document.id \in disk
  /\ Continues(request, [request EXCEPT !.await = "pipe"])
  /\ NoAnswer
  /\ UNCHANGED <<dbConnected, dbDocuments, processedDocuments, disk, nextId, clock,
                 accepted, deletedOk, crashed, pipelineVars, rateVars>>

\* the file was removed before the stream could open it: the listener of
\* lines 244-247 throws outside every handler, and the exception nobody
\* catches ends the process, with the requests it was serving and its list
StreamFails(request) ==
  /\ request.await = "createReadStream"
  /\ request.document.id \notin disk
  /\ crashed' = TRUE
  /\ inFlight' = EmptyBag
  /\ processedDocuments' = <<>>
  /\ NoAnswer
  /\ UNCHANGED <<dbConnected, dbDocuments, disk, nextId, clock,
                 accepted, deletedOk, pipelineVars, rateVars>>

\* the open file is piped into the answer, line 249, whether it has been
\* unlinked since or not
StreamPiped(request) ==
  /\ request.await = "pipe"
  /\ Ends(request)
  /\ Answers(request, 200, <<request.document>>)
  /\ UNCHANGED <<dbConnected, dbDocuments, processedDocuments, disk, nextId, clock,
                 accepted, deletedOk, crashed, pipelineVars, rateVars>>

\* deleteDocument resumes after its lookup and throws when it holds no
\* document, or unlinks the file and calls DatabaseService.deleteDocument:
\* lines 334-355
DeleteLookupSettled(request) ==
  /\ request.handler = "deleteDocument"
  /\ request.await = "getDocumentById"
  /\ request.promise \in {"resolved", "rejected"}
  /\ LET document == LookedUp(request, processedDocuments)
     IN IF document = NoDocument
        THEN /\ Continues(request, Throws(request, 404))
             /\ UNCHANGED disk
        ELSE /\ disk' = disk \ {document.id}
             /\ Continues(request, [request EXCEPT !.await = "deleteDocument",
                                                   !.promise = Called(dbConnected),
                                                   !.document = NoDocument])
  /\ NoAnswer
  /\ UNCHANGED <<dbConnected, dbDocuments, processedDocuments, nextId, clock,
                 accepted, deletedOk, crashed, pipelineVars, rateVars>>

\* the database runs Document.findOneAndDelete({ id })
FindOneAndDeleteRuns(request) ==
  /\ request.await = "deleteDocument"
  /\ request.promise = "sent"
  /\ dbConnected
  /\ dbDocuments' = WithoutId(dbDocuments, request.id)
  /\ Continues(request, [request EXCEPT !.promise = "resolved"])
  /\ NoAnswer
  /\ UNCHANGED <<dbConnected, processedDocuments, disk, nextId, clock,
                 accepted, deletedOk, crashed, pipelineVars, rateVars>>

\* deleteDocument resumes, removes the document from the list when the call
\* threw, and answers: lines 355-367
DeleteSettled(request) ==
  /\ request.await = "deleteDocument"
  /\ request.promise \in {"resolved", "rejected"}
  /\ processedDocuments' = IF request.promise = "rejected"
                           THEN WithoutId(processedDocuments, request.id)
                           ELSE processedDocuments
  /\ Ends(request)
  /\ Answers(request, 200, <<>>)
  /\ deletedOk' = deletedOk \cup {request.id}
  /\ UNCHANGED <<dbConnected, dbDocuments, disk, nextId, clock,
                 accepted, crashed, pipelineVars, rateVars>>

\* DatabaseService.updateDocument on a stored document, the database being
\* connected: part_007 lines 267-277
UpdateDocument(id, updates) ==
  /\ ~crashed
  /\ dbConnected
  /\ FindById(dbDocuments, id) # NoDocument
  /\ dbDocuments' = WithUpdates(dbDocuments, id, updates)
  /\ NoAnswer
  /\ UNCHANGED <<dbConnected, processedDocuments, disk, nextId, clock, inFlight,
                 accepted, deletedOk, crashed, pipelineVars, rateVars>>

\* the controller with ocrService.main as its OCR step
DocNext ==
  \/ DbConnect
  \/ DbDisconnect
  \/ \E request \in Serving : DatabaseFails(request)
  \/ \E request \in Serving : ErrorHandler(request)
  \/ ProcessFileWithoutFile
  \/ \E name \in DocNames, content \in FileContents : ProcessFile(name, content)
  \/ \E request \in Serving :
        OcrSettled(request, performOCR(request.content, request.document.filename))
  \/ \E request \in Serving, tryCompletion \in DocCompletions :
        CategorizeSettled(request, tryCompletion)
  \/ \E request \in Serving : AzureSettled(request)
  \/ \E request \in Serving : SaveRuns(request)
  \/ \E request \in Serving : SaveSettled(request)
  \/ \E request \in Serving : NotificationSettled(request)
  \/ \E query \in Queries : GetDocuments(query)
  \/ \E request \in Serving : FindRuns(request)
  \/ \E request \in Serving : GetDocumentsSettled(request)
  \/ \E id \in DocIds : GetDocumentById(id)
  \/ \E id \in DocIds : DownloadFile(id)
  \/ \E id \in DocIds : DeleteDocument(id)
  \/ \E request \in Serving : FindOneRuns(request)
  \/ \E request \in Serving : GetDocumentByIdSettled(request)
  \/ \E request \in Serving : DownloadFileSettled(request)
  \/ \E request \in Serving : StreamOpens(request)
  \/ \E request \in Serving : StreamFails(request)
  \/ \E request \in Serving : StreamPiped(request)
  \/ \E request \in Serving : DeleteLookupSettled(request)
  \/ \E request \in Serving : FindOneAndDeleteRuns(request)
  \/ \E request \in Serving : DeleteSettled(request)
  \/ \E id \in DocIds, updates \in Updates : UpdateDocument(id, updates)

DocSpec == Init /\ [][DocNext]_vars

(***************************************************************************)
(* processFile with the OCR step as a black box.  ocrService.main never    *)
(* throws and never returns a text of fewer than 5 characters (it catches  *)
(* the errors of the extraction and replaces such a text by a               *)
(* placeholder), so under DocSpec the test of line 40 and the catch clause *)
(* of lines 124-130 are never entered.  Here the step that processFile     *)
(* awaits at line 38 is any function of the file: it may throw, or return  *)
(* a text that the file does not hold.                                     *)
(***************************************************************************)
\* a text of 4 letters and 3 blanks
SpacedText == "a b c d"

\* the outcomes of the awaited step: an error, a text of 2 letters between
\* blanks, the text of the file, a text for the AI path
AnyOcrOutcomes ==
  {OcrThrew, OcrReturned(" ab "), OcrReturned(SpacedText), OcrReturned(MinutesText)}

AnyOcrNext ==
  \/ DbConnect
  \/ DbDisconnect
  \/ \E request \in Serving : DatabaseFails(request)
  \/ \E request \in Serving : ErrorHandler(request)
  \/ ProcessFileWithoutFile
  \/ \E name \in DocNames : ProcessFile(name, SpacedText)
  \/ \E request \in Serving, ocr \in AnyOcrOutcomes : OcrSettled(request, ocr)
  \/ \E request \in Serving, tryCompletion \in DocCompletions :
        CategorizeSettled(request, tryCompletion)
  \/ \E request \in Serving : AzureSettled(request)
  \/ \E request \in Serving : SaveRuns(request)
  \/ \E request \in Serving : SaveSettled(request)
  \/ \E request \in Serving : NotificationSettled(request)
  \/ \E query \in Queries : GetDocuments(query)
  \/ \E request \in Serving : FindRuns(request)
  \/ \E request \in Serving : GetDocumentsSettled(request)
  \/ \E id \in DocIds : GetDocumentById(id)
  \/ \E id \in DocIds : DownloadFile(id)
  \/ \E id \in DocIds : DeleteDocument(id)
  \/ \E request \in Serving : FindOneRuns(request)
  \/ \E request \in Serving : GetDocumentByIdSettled(request)
  \/ \E request \in Serving : DownloadFileSettled(request)
  \/ \E request \in Serving : StreamOpens(request)
  \/ \E request \in Serving : StreamFails(request)
  \/ \E request \in Serving : StreamPiped(request)
  \/ \E request \in Serving : DeleteLookupSettled(request)
  \/ \E request \in Serving : FindOneAndDeleteRuns(request)
  \/ \E request \in Serving : DeleteSettled(request)
  \/ \E id \in DocIds, updates \in Updates : UpdateDocument(id, updates)

AnyOcrSpec == Init /\ [][AnyOcrNext]_vars

TypeOK ==
  /\ pc \in {"idle", "import", "generate", "resolved", "rejected", "done", "threw"}
  /\ textContent \in Texts \cup {""}
  /\ fileName \in FileNames \cup {""}
  /\ aiRequests \in 0..1

(***************************************************************************)
(* Vocabulary of the properties.                                           *)
(***************************************************************************)
\* an invocation that took the AI path has returned
OnAIPath == pc = "done" /\ aiOutcome.kind # "none"

\* an invocation is under way or has ended
Invoked == pc # "idle"

FailureMarkers == {"parsing failed", "processing failed", "minimal"}

\* the text is shorter than 50 characters or holds a failure marker
DegradedText(text) == Len(text) < 50 \/ \E m \in FailureMarkers : Includes(text, m)

Categories == {CategoryOrder[i] : i \in 1..Len(CategoryOrder)}

\* the JavaScript strings of a set of labels
Strings(labels) == {Str(label) : label \in labels}

\* the validator's match count of every category for an input
MatchCounts(text, name) ==
  LET lowerText == ToLowerCase(text)
      lowerFileName == ToLowerCase(name)
  IN [Engineering |-> KeywordMatches("Engineering", lowerText, lowerFileName),
      Finance     |-> KeywordMatches("Finance", lowerText, lowerFileName),
      Procurement |-> KeywordMatches("Procurement", lowerText, lowerFileName),
      HR          |-> KeywordMatches("HR", lowerText, lowerFileName),
      Legal       |-> KeywordMatches("Legal", lowerText, lowerFileName),
      Safety      |-> KeywordMatches("Safety", lowerText, lowerFileName),
      Regulatory  |-> KeywordMatches("Regulatory", lowerText, lowerFileName)]

\* the highest match count
TopCount(counts) == CHOOSE n \in 0..11 : (\E c \in Categories : counts[c] = n)
                                        /\ (\A c \in Categories : counts[c] <= n)

\* the categories with the highest match count
TopCategories(counts) == {c \in Categories : counts[c] = TopCount(counts)}

\* the first category of the table order with the highest match count
FirstTopCategory(counts) ==
  LET top == TopCategories(counts)
  IN CategoryOrder[CHOOSE i \in 1..Len(CategoryOrder) :
                     /\ CategoryOrder[i] \in top
                     /\ \A j \in 1..(i - 1) : CategoryOrder[j] \notin top]

HasHighTrigger == SomeMatching(highPriorityKeywords, ToLowerCase(textContent))

HasMediumTrigger == SomeMatching(mediumPriorityKeywords, ToLowerCase(textContent))

\* the AI call failed: the import or the request rejected
AICallFailed == aiOutcome.kind \in {"importFailed", "rejected"}

\* the properties of the object the raw output is the JSON text of, if it
\* is one
AnsweredObjects ==
  IF aiOutcome.kind = "response" /\ JSONParse(aiOutcome.text).value.type = "object"
  THEN {JSONParse(aiOutcome.text).members}
  ELSE {}

\* the raw output holds no "{" followed by a "}", or what lies between the
\* first "{" and the last "}" is not JSON
NoUsableJson ==
  /\ aiOutcome.kind = "response"
  /\ \/ ~RegexMatch(aiOutcome.text).found
     \/ ~JSONParse(RegexMatch(aiOutcome.text).text).ok

(***************************************************************************)
(* C1: every invocation returns without throwing, with a category among    *)
(* the 8 labels and a priority among High, Medium, Low.                    *)
(***************************************************************************)
C1_ResultInEnumerations ==
  /\ pc # "threw"
  /\ pc = "done" => /\ result.category \in Strings(CategoryLabels)
                    /\ result.priority \in Strings(PriorityLabels)

(***************************************************************************)
(* C2: for a text shorter than 50 characters or holding a failure marker,  *)
(* the invocation ends at once, no request was sent to the AI service and  *)
(* the result is exactly analyzeFromFilename(fileName).                    *)
(***************************************************************************)
C2_DegradedUsesFilenameOnly ==
  (Invoked /\ DegradedText(textContent)) =>
     /\ pc = "done"
     /\ aiRequests = 0
     /\ aiOutcome = NoOutcome
     /\ result = analyzeFromFilename(fileName)

C2_Witness ==
  /\ pc = "done"
  /\ Len(textContent) >= 50
  /\ Includes(textContent, "minimal")
  /\ Includes(textContent, "invoice")
  /\ fileName = "legal_audit.pdf"
  /\ result.category = Str("Legal")
  /\ aiRequests = 0

(***************************************************************************)
(* C3: if no category has 2 or more keyword matches the validated category *)
(* is the adapter's; if one category alone has the highest count and that  *)
(* count is 2 or more, the validated category is that category.            *)
(***************************************************************************)
C3_OverrideThreshold ==
  OnAIPath =>
     LET counts == MatchCounts(textContent, fileName)
     IN /\ (\A c \in Categories : counts[c] < 2) => result.category = aiResult.category
        /\ \A c \in Categories :
             (counts[c] >= 2 /\ \A d \in Categories \ {c} : counts[d] < counts[c])
                => result.category = Str(c)

C3_Witness ==
  /\ OnAIPath
  /\ aiResult.category = Str("HR")
  /\ result.category = Str("Finance")
  /\ LET counts == MatchCounts(textContent, fileName)
     IN counts["Finance"] = 2 /\ TopCategories(counts) = {"Finance"}

(***************************************************************************)
(* C4 as claimed: when two or more categories tie for the highest match    *)
(* count, the validated category is the adapter's, even at a count of 2 or *)
(* more.                                                                   *)
(***************************************************************************)
C4_TieKeepsAICategory ==
  OnAIPath =>
     LET counts == MatchCounts(textContent, fileName)
     IN Cardinality(TopCategories(counts)) >= 2 => result.category = aiResult.category

(***************************************************************************)
(* C4 as amended: when two or more categories tie for the highest match    *)
(* count and that count is 2 or more, the validated category is the first  *)
(* of the tied categories in the table order; when the tied count is below *)
(* 2 the adapter's category is kept.                                       *)
(***************************************************************************)
C4_TieFirstInOrderWins ==
  OnAIPath =>
     LET counts == MatchCounts(textContent, fileName)
     IN Cardinality(TopCategories(counts)) >= 2 =>
           result.category = IF TopCount(counts) >= 2 THEN Str(FirstTopCategory(counts))
                             ELSE aiResult.category

C4_Witness ==
  /\ OnAIPath
  /\ aiResult.category = Str("HR")
  /\ result.category = Str("Finance")
  /\ LET counts == MatchCounts(textContent, fileName)
     IN /\ counts["Finance"] = 2
        /\ counts["Legal"] = 2
        /\ TopCategories(counts) = {"Finance", "Legal"}

(***************************************************************************)
(* C5: on the AI path the priority is High if the lowercased text holds a  *)
(* High trigger, else Medium if it holds a Medium trigger, else the        *)
(* priority the AI suggested when that is High, Medium or Low, and Low     *)
(* when the AI suggested none.                                             *)
(***************************************************************************)
C5_PriorityPrecedence ==
  OnAIPath =>
     /\ HasHighTrigger => result.priority = Str("High")
     /\ (~HasHighTrigger /\ HasMediumTrigger) => result.priority = Str("Medium")
     /\ (~HasHighTrigger /\ ~HasMediumTrigger) =>
          /\ aiResult.priority \in Strings(PriorityLabels)
                => result.priority = aiResult.priority
          /\ \A o \in AnsweredObjects :
               /\ ("priority" \in DOMAIN o /\ o.priority \in Strings(PriorityLabels))
                     => result.priority = o.priority
               /\ "priority" \notin DOMAIN o => result.priority = Str("Low")
          /\ AICallFailed => result.priority = Str("Low")

C5_Witness ==
  /\ OnAIPath
  /\ Includes(textContent, "URGENT")
  /\ Includes(textContent, "important")
  /\ aiResult.priority = Str("Low")
  /\ result.priority = Str("High")

(***************************************************************************)
(* C6: the adapter's category is one of the 8 labels and its priority one  *)
(* of High, Medium, Low, whatever the model answered.                      *)
(***************************************************************************)
C6_AdapterValidatesEnumerations ==
  OnAIPath => /\ aiResult.category \in Strings(CategoryLabels)
              /\ aiResult.priority \in Strings(PriorityLabels)

(***************************************************************************)
(* C7: every invocation eventually returns, also when the AI service never *)
(* answers.                                                                *)
(***************************************************************************)
C7_EventuallyReturns == Invoked ~> (pc = "done")

(***************************************************************************)
(* C8: the adapter never raises, and when the AI call fails, the output    *)
(* holds no JSON object or the JSON does not parse, it returns Other, Low  *)
(* and the word-count sentence.                                            *)
(***************************************************************************)
C8_AdapterNeverRaises ==
  /\ pc # "threw"
  /\ (OnAIPath /\ (AICallFailed \/ NoUsableJson)) =>
        aiResult = [category |-> Str("Other"), priority |-> Str("Low"),
                    summary |-> Str("Document contains "
                                    \o ToString(SplitLength(textContent))
                                    \o " words and has been processed for review.")]

C8_Witness ==
  /\ OnAIPath
  /\ aiOutcome = Responded("{category: HR}")
  /\ textContent = Preamble50
  /\ aiResult.summary = Str("Document contains 8 words and has been processed for review.")

(***************************************************************************)
(* C9: when the AI call fails on a text that is not degraded the           *)
(* invocation still returns: the category is the keyword override if one   *)
(* applies and Other otherwise, the priority is High or Medium by the      *)
(* keyword rules and Low otherwise, the analysis is the word-count         *)
(* sentence.                                                               *)
(***************************************************************************)
C9_FailedCallStillClassifies ==
  AICallFailed =>
     /\ pc \in {"resolved", "done"}
     /\ pc = "done" =>
          /\ LET counts == MatchCounts(textContent, fileName)
             IN result.category = Str(IF TopCount(counts) >= 2
                                      THEN FirstTopCategory(counts) ELSE "Other")
          /\ result.priority = Str(IF HasHighTrigger THEN "High"
                                   ELSE IF HasMediumTrigger THEN "Medium" ELSE "Low")
          /\ result.analysis = Str(WordCountSummary(textContent))

C9_Witness ==
  /\ pc = "done"
  /\ aiOutcome = Rejected
  /\ textContent = JoinWords(Preamble50, <<"Payment", "important">>)
  /\ fileName = "urgent_invoice_bill.pdf"
  /\ result.category = Str("Finance")
  /\ result.priority = Str("Medium")
  /\ result.analysis = Str("Document contains 10 words and has been processed for review.")

(***************************************************************************)
(* C10 as claimed: when the output parses as JSON and has no summary       *)
(* field, the adapter's summary is the word-count sentence of the fallback *)
(* triple.                                                                 *)
(***************************************************************************)
C10_MissingSummaryIsWordCount ==
  OnAIPath =>
     \A o \in AnsweredObjects :
        "summary" \notin DOMAIN o => aiResult.summary = Str(WordCountSummary(textContent))

(***************************************************************************)
(* C10 as amended: when the output parses as JSON and has no summary       *)
(* field, the adapter's summary is the fixed sentence "Document processed  *)
(* for categorization.", which is not the word-count sentence.             *)
(***************************************************************************)
C10_MissingSummaryIsFixedSentence ==
  OnAIPath =>
     \A o \in AnsweredObjects :
        "summary" \notin DOMAIN o =>
           /\ aiResult.summary = Str("Document processed for categorization.")
           /\ aiResult.summary # Str(WordCountSummary(textContent))

C10_Witness ==
  /\ OnAIPath
  /\ aiOutcome = Responded("{\"category\":\"HR\",\"priority\":\"High\"}")
  /\ aiResult = [category |-> Str("HR"), priority |-> Str("High"),
                 summary |-> Str("Document processed for categorization.")]

(***************************************************************************)
(* C11 as claimed: an invocation sends at most one request to the AI       *)
(* service; when it has ended it has sent exactly one request for a text   *)
(* that is not degraded and none for a degraded text.                      *)
(***************************************************************************)
C11_ExactlyOneRequest ==
  /\ aiRequests <= 1
  /\ pc \in {"done", "threw"} =>
        aiRequests = IF DegradedText(textContent) THEN 0 ELSE 1

(***************************************************************************)
(* C11 as amended: an invocation sends at most one request and never       *)
(* repeats it; when it has ended it has sent exactly one request if the    *)
(* text is not degraded and the import of the client library succeeded     *)
(* (whether the request was answered or rejected), and none if the text is *)
(* degraded or the import failed.                                          *)
(***************************************************************************)
C11_OneRequestUnlessImportFails ==
  /\ aiRequests <= 1
  /\ pc \in {"done", "threw"} =>
        aiRequests = IF DegradedText(textContent) \/ aiOutcome.kind = "importFailed"
                     THEN 0 ELSE 1

C11_Witness ==
  /\ pc = "done"
  /\ ~DegradedText(textContent)
  /\ aiOutcome = Rejected
  /\ aiRequests = 1

(***************************************************************************)
(* C13: on the AI path the analysis of the result is the adapter's summary *)
(* unchanged, whether or not the category was overridden and whatever the  *)
(* priority.                                                               *)
(***************************************************************************)
C13_AnalysisIsAdapterSummary == OnAIPath => result.analysis = aiResult.summary

C13_Witness ==
  /\ OnAIPath
  /\ aiResult = [category |-> Str("HR"), priority |-> Str("Low"),
                 summary |-> Str("An invoice document.")]
  /\ result = [category |-> Str("Finance"), priority |-> Str("High"),
               analysis |-> Str("An invoice document.")]

(***************************************************************************)
(* C14: for a text that is not degraded, in which Finance is the only      *)
(* category with 2 or more keyword matches and which holds a High trigger, *)
(* an adapter result of Other, Low and summary s gives the result Finance, *)
(* High and analysis s.                                                    *)
(***************************************************************************)
C14_FinanceHighScenario ==
  OnAIPath =>
     LET counts == MatchCounts(textContent, fileName)
     IN (/\ aiResult.category = Str("Other")
         /\ aiResult.priority = Str("Low")
         /\ counts["Finance"] >= 2
         /\ \A c \in Categories \ {"Finance"} : counts[c] < 2
         /\ HasHighTrigger)
        => result = [category |-> Str("Finance"), priority |-> Str("High"),
                     analysis |-> aiResult.summary]

C14_Witness ==
  /\ OnAIPath
  /\ textContent = ScenarioText
  /\ fileName = "scan.pdf"
  /\ aiResult = [category |-> Str("Other"), priority |-> Str("Low"),
                 summary |-> Str("An invoice document.")]
  /\ result = [category |-> Str("Finance"), priority |-> Str("High"),
               analysis |-> Str("An invoice document.")]

(***************************************************************************)
(* C15: the validated category is Other only if the adapter's category was *)
(* Other and no category reached 2 matches; a validated category that      *)
(* differs from the adapter's is one of the 7 keyword categories.          *)
(***************************************************************************)
C15_OverrideNeverYieldsOther ==
  OnAIPath =>
     /\ result.category = Str("Other") =>
           /\ aiResult.category = Str("Other")
           /\ TopCount(MatchCounts(textContent, fileName)) < 2
     /\ result.category # aiResult.category => result.category \in Strings(Categories)

C15_Witness ==
  /\ OnAIPath
  /\ aiOutcome = Responded("{\"priority\":\"High\"}")
  /\ aiResult.category = Str("Other")
  /\ result.category = Str("Other")
  /\ MatchCounts(textContent, fileName)["Finance"] = 1

(***************************************************************************)
(* C12: whatever the interleaving of concurrent invocations, every         *)
(* invocation that has ended returned, without throwing, the result it     *)
(* returns when it runs alone on the same text, file name and AI           *)
(* behaviour.                                                              *)
(***************************************************************************)
\* the result of one invocation running alone
SoloResult(text, name, outcome) ==
  IF outcome.kind = "none" THEN analyzeFromFilename(name)
  ELSE AfterAdapter(text, name,
                    CatchAndFallback(IF outcome.kind = "response"
                                     THEN ParseResponse(outcome.text) ELSE Thrown,
                                     text)).value

C12_ConcurrentCallsIndependent ==
  \A c \in Calls :
     /\ calls[c].pc # "threw"
     /\ calls[c].pc = "done" =>
           calls[c].result = SoloResult(calls[c].textContent, calls[c].fileName,
                                        calls[c].aiOutcome)

C12_Witness ==
  /\ calls[1].pc = "done"
  /\ calls[1].textContent = JoinWords(Preamble50, <<"invoice", "Payment">>)
  /\ calls[1].aiOutcome.kind = "response"
  /\ calls[1].result.category = Str("Finance")
  /\ calls[2].pc = "generate"
  /\ calls[2].textContent = JoinWords(Preamble50, <<"URGENT">>)

(***************************************************************************)
(* Vocabulary of the properties of the filename-only analyzer.             *)
(***************************************************************************)
\* the analyzer's match count of every category for a file name
FilenameCounts(name) ==
  LET lowerFileName == ToLowerCase(name)
  IN [Engineering |-> FilenameMatches("Engineering", lowerFileName),
      Finance     |-> FilenameMatches("Finance", lowerFileName),
      Procurement |-> FilenameMatches("Procurement", lowerFileName),
      HR          |-> FilenameMatches("HR", lowerFileName),
      Legal       |-> FilenameMatches("Legal", lowerFileName),
      Safety      |-> FilenameMatches("Safety", lowerFileName),
      Regulatory  |-> FilenameMatches("Regulatory", lowerFileName)]

\* the invocation returned the filename-only analysis
OnFilenamePath == pc = "done" /\ aiOutcome.kind = "none"

\* the lowercased file name holds one of the words
HoldsAny(words) == \E w \in words : Includes(ToLowerCase(fileName), w)

(***************************************************************************)
(* C16: the analyzer's category is the category with the most keyword      *)
(* matches in the lowercased file name, the first of them in the table     *)
(* order when several have the most, and Other when no keyword matches.    *)
(***************************************************************************)
C16_FilenameCategoryIsFirstMaximum ==
  OnFilenamePath =>
     LET counts == FilenameCounts(fileName)
     IN result.category = Str(IF TopCount(counts) = 0 THEN "Other"
                              ELSE FirstTopCategory(counts))

C16_Witness ==
  /\ OnFilenamePath
  /\ fileName = "contract_invoice.pdf"
  /\ TopCategories(FilenameCounts(fileName)) = {"Finance", "Procurement", "Legal"}
  /\ result.category = Str("Finance")

(***************************************************************************)
(* C17: the analyzer's priority is High if the file name holds urgent,     *)
(* immediate, emergency, critical or asap; else Medium if it holds         *)
(* important, attention, notice or reminder or if a category keyword       *)
(* matched; else Low.                                                      *)
(***************************************************************************)
C17_FilenamePriority ==
  OnFilenamePath =>
     result.priority =
        Str(IF HoldsAny({"urgent", "immediate", "emergency", "critical", "asap"}) THEN "High"
            ELSE IF \/ HoldsAny({"important", "attention", "notice", "reminder"})
                    \/ TopCount(FilenameCounts(fileName)) > 0 THEN "Medium"
            ELSE "Low")

C17_Witness ==
  /\ OnFilenamePath
  /\ fileName = "scan_bill.pdf"
  /\ result.category = Str("Finance")
  /\ result.priority = Str("Medium")

(***************************************************************************)
(* C19: every string the extraction returns in place of a text is treated  *)
(* as a failed extraction: the invocation on it ends with the filename     *)
(* analysis and sends nothing to the AI service.                           *)
(***************************************************************************)
C19_PlaceholdersAreDegraded ==
  (Invoked /\ textContent \in OcrPlaceholders) =>
     /\ pc = "done"
     /\ aiRequests = 0
     /\ aiOutcome = NoOutcome

(***************************************************************************)
(* Vocabulary of the properties of the match count.                        *)
(***************************************************************************)
\* the distinct keywords of a category
KeywordSet(c) == {categoryKeywords[c][i] : i \in 1..Len(categoryKeywords[c])}

\* the number of distinct keywords of a category found in one string
FoundIn(c, haystack) == Cardinality({k \in KeywordSet(c) : Includes(haystack, k)})

\* the number of distinct keywords of a category found in one of two strings
FoundInEither(c, first, second) ==
  Cardinality({k \in KeywordSet(c) : Includes(first, k) \/ Includes(second, k)})

\* the counts of the keywords found in the lowercased text or file name
EitherCounts(text, name) ==
  LET lowerText == ToLowerCase(text)
      lowerFileName == ToLowerCase(name)
  IN [Engineering |-> FoundInEither("Engineering", lowerText, lowerFileName),
      Finance     |-> FoundInEither("Finance", lowerText, lowerFileName),
      Procurement |-> FoundInEither("Procurement", lowerText, lowerFileName),
      HR          |-> FoundInEither("HR", lowerText, lowerFileName),
      Legal       |-> FoundInEither("Legal", lowerText, lowerFileName),
      Safety      |-> FoundInEither("Safety", lowerText, lowerFileName),
      Regulatory  |-> FoundInEither("Regulatory", lowerText, lowerFileName)]

(***************************************************************************)
(* C20 as claimed: the validator's match count of a category is the number *)
(* of its distinct keywords that occur in the lowercased concatenation of  *)
(* the text and the file name.                                             *)
(***************************************************************************)
C20_CountOverConcatenation ==
  OnAIPath =>
     LET counts == MatchCounts(textContent, fileName)
         joined == ToLowerCase(textContent \o fileName)
     IN \A c \in Categories : counts[c] = FoundIn(c, joined)

(***************************************************************************)
(* C20 as amended: the validator's match count of a category is the number *)
(* of its distinct keywords that occur in the lowercased text or in the    *)
(* lowercased file name, each searched on its own; the validated category  *)
(* follows these counts.                                                   *)
(***************************************************************************)
C20_CountOverTextOrFilename ==
  OnAIPath =>
     LET counts == MatchCounts(textContent, fileName)
         either == EitherCounts(textContent, fileName)
     IN /\ \A c \in Categories : counts[c] = either[c]
        /\ result.category = IF TopCount(either) >= 2 THEN Str(FirstTopCategory(either))
                             ELSE aiResult.category

C20_Witness ==
  /\ OnAIPath
  /\ textContent = JoinWords(Preamble50, <<"staff", "March">>)
  /\ fileName = "report.pdf"
  /\ Includes(ToLowerCase(textContent \o fileName), "hr")
  /\ EitherCounts(textContent, fileName)["HR"] = 1
  /\ aiOutcome.kind = "rejected"
  /\ result.category = Str("Other")

(***************************************************************************)
(* Vocabulary of the property of the extraction of the JSON object.        *)
(***************************************************************************)
\* the opening braces minus the closing braces of a string
BraceDepth(s) ==
  Cardinality({i \in 1..Len(s) : SubSeq(s, i, i) = "{"})
  - Cardinality({i \in 1..Len(s) : SubSeq(s, i, i) = "}"})

\* the first balanced braced substring of a raw output
FirstBalancedObject(response) ==
  LET opens == {i \in 1..Len(response) : SubSeq(response, i, i) = "{"}
      first == CHOOSE i \in opens : \A j \in opens : i <= j
      ends == {j \in 1..Len(response) : /\ j > first
                                        /\ SubSeq(response, j, j) = "}"
                                        /\ BraceDepth(SubSeq(response, first, j)) = 0}
      end == CHOOSE j \in ends : \A k \in ends : j <= k
  IN IF opens = {} \/ ends = {}
     THEN [found |-> FALSE, text |-> ""]
     ELSE [found |-> TRUE, text |-> SubSeq(response, first, end)]

(***************************************************************************)
(* C21: when the raw output of the model holds a first balanced braced     *)
(* substring that is a valid JSON object, the adapter returns the fields   *)
(* of that object (with the defaults for missing fields), whatever text    *)
(* follows the object, and not the fallback triple.                        *)
(***************************************************************************)
C21_FirstBalancedObjectParsed ==
  (OnAIPath /\ aiOutcome.kind = "response") =>
     LET balanced == FirstBalancedObject(aiOutcome.text)
         parsed == JSONParse(balanced.text)
     IN (balanced.found /\ parsed.ok) => aiResult = ParsedTriple(parsed.members)

(***************************************************************************)
(* C27: on the AI path a text with a Medium trigger and no High trigger    *)
(* gets the priority Medium even when the AI suggested High; whenever the  *)
(* text holds a trigger of either tier the priority is fixed by the text   *)
(* alone, and the AI's priority is returned only for a text without any    *)
(* trigger.                                                                *)
(***************************************************************************)
C27_MediumTriggerOverridesAI ==
  OnAIPath =>
     /\ (HasMediumTrigger /\ ~HasHighTrigger /\ aiResult.priority = Str("High"))
           => result.priority = Str("Medium")
     /\ (HasHighTrigger \/ HasMediumTrigger)
           => result.priority = Str(IF HasHighTrigger THEN "High" ELSE "Medium")
     /\ (result.priority = aiResult.priority
         /\ result.priority \notin Strings({"High", "Medium"}))
           => (~HasHighTrigger /\ ~HasMediumTrigger)

C27_Witness ==
  /\ OnAIPath
  /\ textContent = JoinWords(Preamble50, <<"important">>)
  /\ aiOutcome.kind = "response"
  /\ aiResult.priority = Str("High")
  /\ result.priority = Str("Medium")

\* some keyword of some category occurs in the lowercased file name
SomeFilenameKeyword(name) ==
  \E c \in Categories :
     \E i \in 1..Len(filenameCategories[c]) :
        Includes(ToLowerCase(name), filenameCategories[c][i])

(***************************************************************************)
(* C28: in every result of the filename-only analyzer the category is      *)
(* Other exactly when no category keyword occurs in the file name, and a   *)
(* result whose category is not Other never has the priority Low.          *)
(***************************************************************************)
C28_OtherIffNoKeyword ==
  OnFilenamePath =>
     /\ (result.category = Str("Other")) <=> ~SomeFilenameKeyword(fileName)
     /\ result.category # Str("Other") => result.priority # Str("Low")

C28_Witness ==
  /\ OnFilenamePath
  /\ fileName = "bill_scan.pdf"
  /\ SomeFilenameKeyword(fileName)
  /\ ~HoldsAny({"important", "attention", "notice", "reminder"})
  /\ result.category = Str("Finance")
  /\ result.priority = Str("Medium")

(***************************************************************************)
(* Vocabulary of the properties of the request validation middleware.      *)
(***************************************************************************)
\* the requests of a client admitted in the minute before the current instant
AdmittedInWindow(ip) == RecentRequests(StoreGet(rateLimitStore, ip), now)

\* the last request was rejected
LastRejected == lastRequest.status = "429"

(***************************************************************************)
(* C22: at every instant and for every client, the requests of the client  *)
(* that were admitted in the preceding 60000 ms are at most 100.           *)
(***************************************************************************)
C22_AtMost100PerMinute ==
  \A ip \in DOMAIN rateLimitStore : Len(AdmittedInWindow(ip)) <= MaxRequests

(***************************************************************************)
(* C29: a request rejected with 429 leaves global.rateLimitStore as it     *)
(* was: the instant of the rejected request is not recorded.               *)
(***************************************************************************)
C29_RejectionLeavesStoreUnchanged ==
  [][(now' = now /\ lastRequest'.status = "429") => rateLimitStore' = rateLimitStore]_vars

C29_Witness ==
  /\ lastRequest = [ip |-> BusyClient, at |-> 30000, status |-> "429"]
  /\ now = 30000
  /\ Len(rateLimitStore[BusyClient]) = MaxRequests + 1
  /\ \A i \in 1..(MaxRequests + 1) : rateLimitStore[BusyClient][i] = 0

(***************************************************************************)
(* C30: with a clock that never goes back, the limiter with its cleanup    *)
(* pass and a limiter without it answer every request alike, and keep the  *)
(* same instants of the last minute for every client.                      *)
(***************************************************************************)
C30_CleanupChangesNoDecision ==
  /\ lastRequest = plainLast
  /\ \A ip \in DOMAIN plainStore :
        AdmittedInWindow(ip) = RecentRequests(plainStore[ip], now)

C30_Witness ==
  /\ LastRejected
  /\ plainLast.status = "429"
  /\ lastRequest.ip = BusyClient
  /\ CrowdSize \in DOMAIN plainStore
  /\ CrowdSize \notin DOMAIN rateLimitStore

(***************************************************************************)
(* Vocabulary of the properties of the document controller.                *)
(***************************************************************************)
\* the characters of a text that are not blanks
NonBlankCount(text) == Cardinality({i \in 1..Len(text) : SubSeq(text, i, i) # " "})

\* the record kept for an identifier, in the database or in the list
StoredDocument(id) == FindById(dbDocuments \o processedDocuments, id)

\* processFile answers an upload that came with a file
AnsweredUpload == lastResponse.handler = "processFile" /\ lastResponse.id # 0

\* a deleteDocument for the identifier is being served
BeingDeleted(id) ==
  \E request \in Serving : request.handler = "deleteDocument" /\ request.id = id

\* the upload left nothing behind and is answered with an error
FailedCleanly ==
  /\ lastResponse.status \in {400, 500}
  /\ lastResponse.documents = <<>>
  /\ lastResponse.id \notin disk
  /\ StoredDocument(lastResponse.id) = NoDocument
  /\ lastResponse.id \notin accepted

\* a document matches every filter the query supplies
MatchesFilters(doc, query) ==
  /\ (query.category # "" => doc.category = Str(query.category))
  /\ (query.priority # "" => doc.priority = Str(query.priority))
  /\ (query.status # "" => doc.status = query.status)

\* the documents of a list, whatever their order
DocumentsOf(documents) == {documents[i] : i \in 1..Len(documents)}

\* an upload that came with a file has thrown and waits for the error
\* handler
FailingUploads ==
  {request \in Serving : /\ request.handler = "processFile"
                         /\ request.await = "errorHandler"
                         /\ request.id # 0}

\* nothing is left of the upload: no file, no record, no 201
LeftNothing(id) ==
  /\ id \notin disk
  /\ StoredDocument(id) = NoDocument
  /\ id \notin accepted

(***************************************************************************)
(* With ocrService.main as the OCR step no upload that came with a file    *)
(* fails: each is answered with 201 (an invariant of DocSpec).             *)
(***************************************************************************)
MainNeverFails == FailingUploads = {} /\ (AnsweredUpload => lastResponse.status = 201)

(***************************************************************************)
(* C23 as claimed: when the OCR step throws or the extracted text has      *)
(* fewer than 5 characters that are not blanks, processFile deletes the    *)
(* uploaded file, stores no record and passes an error to the error        *)
(* handler instead of answering 201.                                       *)
(***************************************************************************)
C23_FailsBelowFiveNonBlank ==
  (AnsweredUpload /\ (lastResponse.ocr.threw \/ NonBlankCount(lastResponse.ocr.text) < 5))
     => FailedCleanly

(***************************************************************************)
(* C23 as amended: processFile fails exactly when the OCR step throws or   *)
(* the extracted text, trimmed of the blanks at its ends, has fewer than 5 *)
(* characters; it then deletes the uploaded file, stores no record in the  *)
(* database or in the list, and passes an error to the error handler       *)
(* instead of answering 201: the file is gone and no record exists from    *)
(* the throw on, while the error waits for the error handler, and when the *)
(* error handler answers.                                                  *)
(***************************************************************************)
C23_FailureCleansUp ==
  /\ \A request \in FailingUploads :
        /\ request.ocr.threw \/ Len(Trim(request.ocr.text)) < 5
        /\ LeftNothing(request.id)
  /\ AnsweredUpload =>
        /\ (lastResponse.ocr.threw \/ Len(Trim(lastResponse.ocr.text)) < 5)
              <=> lastResponse.status # 201
        /\ lastResponse.status # 201 => FailedCleanly

\* the second upload has thrown on a text of 2 letters: its file is removed
\* and no answer is sent yet, while the first upload keeps its file and its
\* record
C23_Witness ==
  /\ \E request \in FailingUploads :
        /\ request.id = 2
        /\ request.ocr = OcrReturned(" ab ")
        /\ request.statusCode = 400
  /\ lastResponse = NoResponse
  /\ 1 \in disk
  /\ 2 \notin disk
  /\ StoredDocument(1) # NoDocument
  /\ StoredDocument(2) = NoDocument

(***************************************************************************)
(* C24: getDocuments returns only documents that match every filter of     *)
(* the query among category, priority and status, and the database and     *)
(* the in-memory fallback return the same documents for the same stored    *)
(* documents and the same query.                                           *)
(***************************************************************************)
C24_SameAnswerFromBothStores ==
  lastResponse.handler = "getDocuments" =>
     /\ \A doc \in DocumentsOf(lastResponse.documents) :
           MatchesFilters(doc, lastResponse.query)
     /\ \A stored \in {dbDocuments, processedDocuments} :
           DocumentsOf(DatabaseGetDocuments(stored, lastResponse.query))
              = DocumentsOf(MemoryGetDocuments(stored, lastResponse.query))

(***************************************************************************)
(* C25: a document answered with 201 and not deleted since is found by     *)
(* getDocumentById and by downloadFile, whatever the connectivity of the   *)
(* database was at the upload and is at the lookup: a lookup sent after    *)
(* the 201, with no deletion of the document answered or being served, is  *)
(* answered with 200.                                                      *)
(***************************************************************************)
C25_AcceptedDocumentIsFound ==
  (/\ lastResponse.handler \in {"getDocumentById", "downloadFile"}
   /\ lastResponse.id \in lastResponse.since.accepted
   /\ lastResponse.id \notin deletedOk
   /\ ~BeingDeleted(lastResponse.id))
     => lastResponse.status = 200

(***************************************************************************)
(* C26: once deleteDocument answered success for an identifier, no answer  *)
(* of getDocumentById, downloadFile or getDocuments to a request sent      *)
(* after that holds the document, however the database connects and        *)
(* disconnects during and after the deletion.                              *)
(***************************************************************************)
C26_DeletedDocumentNeverReturned ==
  lastResponse.handler \in {"getDocumentById", "downloadFile", "getDocuments"} =>
     \A doc \in DocumentsOf(lastResponse.documents) :
        doc.id \notin lastResponse.since.deletedOk

====
